---- MODULE Spec2Model ----
(***************************************************************************)
(* A model of the UCP worker (src/src/ucp/core/ucp_worker.c): the wakeup   *)
(* set (event descriptor, signaling pipe, arm/wait/signal), the progress   *)
(* entry point with its reentry counter and worker lock, the endpoint      *)
(* configuration cache and the atomic-resource selector.                   *)
(***************************************************************************)
EXTENDS Integers, Sequences, FiniteSets, TLC

(***************************************************************************)
(* Bounds of the model.                                                    *)
(***************************************************************************)
\* Number of application threads that call into one worker.
NumThreads == 2
\* Largest number of transport resources (context->num_tls) of a worker
\* whose wakeup set is explored.
MaxTls == 2
\* Capacity of the kernel pipe behind wakeup_pipe, in bytes.
PipeCap == 2
\* Largest num_tls of a worker whose endpoint-configuration cache is explored
\* (from 6 resources on, the cache size is capped at UINT8_MAX).
MaxCfgTls == 6
\* Number of distinct endpoint-configuration keys presented to the cache.
NumKeys == 5
\* Largest num_tls of a worker whose atomic resources are selected.
MaxAtomicTls == 2

Threads == 1 .. NumThreads

VARIABLES
    \* ---- worker, fixed by ucp_worker_create ----
    thread_mode,    \* "SINGLE" or "MULTI": decides mt_lock.mt_type
    num_tls,        \* context->num_tls
    iface_wakeups,  \* worker->wakeup.iface_wakeups[]: TRUE = a wakeup handle
    \* ---- worker, mutable ----
    mt_lock,        \* worker->mt_lock: [owner: 0 = free, count: depth]
    inprogress,     \* worker->inprogress
    wakeup_pipe,    \* bytes buffered in worker->wakeup.wakeup_pipe
    wakeup_efd,     \* worker->wakeup.wakeup_efd, -1 = not yet created
    epoll_set,      \* descriptors registered in the epoll object wakeup_efd
    epoll_open,     \* epoll objects currently open
    iface_events,   \* per interface: unprocessed completion / AM pending
    terminated,     \* "none", or why the process was aborted
    \* ---- endpoint-configuration cache ----
    ep_config,        \* worker->ep_config[]: 0 .. config_count-1 -> entry
    ep_config_count,  \* worker->ep_config_count
    ep_config_max,    \* worker->ep_config_max
    cfg_ret,          \* the last ucp_worker_get_ep_config: [key, idx]
    presented,        \* history: the distinct keys, in order of first call
    \* ---- atomic-resource selection ----
    features,         \* context->config.features (the AMO bits of it)
    atomic_mode,      \* context->config.ext.atomic_mode
    tl_rscs,          \* context->tl_rscs[]: [md_index, dev_name]
    tl_mds,           \* context->tl_mds[].attr.cap.flags
    iface_attrs,      \* worker->iface_attrs[]: [flags, priority, score]
    atomic_tls,       \* worker->atomic_tls, a 64-bit mask
    atomic_init,      \* "pending", or "done" once the selector has run
    \* ---- per calling thread ----
    pc,             \* position of the thread inside the call it is making
    status,         \* the local `status` of the call the thread is inside
    \* ---- what the application sees ----
    ret,            \* the last return: [status, errno, fd (-1: not set)]
    \* ---- the perf tool's validators (src/src/tools/perf/libperf.c) ----
    perf_params,    \* *params, the ucx_perf_params_t under validation
    perf_attr,      \* what uct_iface_query reports: [query, cap]
    perf_status,    \* "none", or the status the validator returned
    perf_features,  \* *features of ucp_perf_test_check_params, "none" = unset
    \* ---- the messaging-API endpoint setup of a group of peers ----
    setup_rkey,     \* features & (RMA|AMO32|AMO64): a remote key is packed
    peer_pc,        \* per peer: its position in ucp_perf_test_setup_endpoints
    peer_status,    \* per peer: the local `status`
    peer_i,         \* per peer: the loop index i
    peer_coll,      \* per peer: collective_status of the status exchange
    peer_array,     \* per peer: perf->ucp.peers is allocated
    peer_eps,       \* per peer: the i with perf->ucp.peers[i].ep != NULL
    peer_rkeys,     \* per peer: the i with perf->ucp.peers[i].rkey != NULL
    peer_ret,       \* per peer: "none", or what setup_endpoints returned
    peer_fault,     \* per peer, history: the calls that failed on it, and
                    \* "misread" once it took a vector for one of another kind
    rte_posted,     \* per peer: the vectors it posted, in order
    rte_read,       \* per peer p and sender i: how many of i's vectors p read
    \* ---- the multi-thread driver, ucx_perf_thread_spawn ----
    drv_params,     \* *params of the run
    drv_pc,         \* "spawn", "parallel" or "returned"
    drv_tctx,       \* tctx[]: per thread its perf header and its position
    drv_statuses,   \* statuses[]
    drv_status,     \* "none", or what ucx_perf_thread_spawn returned
    \* ---- the many-to-one active-message test (test_many2one_am.cc) ----
    am_pc,          \* position of the test body
    am_i,           \* the loop index i: the sends accepted so far
    am_sender,      \* sender_num of the send under way
    am_buffers,     \* per sender: the seed its mapped buffer is filled with
    am_txq,         \* per sender: the accepted messages not yet delivered
    am_rx,          \* the receiver's descriptors: [state, magic, length,
                    \* data, got (history: the payload it is held with)]
    am_registered,  \* the handler of AM_ID is registered
    am_count,       \* m_am_count
    am_backlog,     \* m_backlog: the descriptors the handler kept
    am_seen,        \* history: the payloads the handler was called with
    am_refused,     \* history: a send returned NO_RESOURCE
    am_fail,        \* history: the expectations of the test that failed
    \* ---- ucp_worker_create opening its interfaces ----
    wc_pc,            \* "none", "open" (inside the loop) or "returned"
    wc_tl_id,         \* the loop index tl_id
    wc_caps,          \* per resource: the cap.flags its interface reports
    wc_ifaces,        \* worker->ifaces[]: TRUE = not NULL
    wc_iface_wakeups, \* worker->wakeup.iface_wakeups[]: TRUE = not NULL
    wc_open_ifaces,   \* the resources whose interface is open
    wc_open_wakeups,  \* the resources whose wakeup handle is open
    wc_status,        \* "none", or what ucp_worker_create returned
    wc_worker_p,      \* *worker_p was set
    wc_fault,         \* history: the call that failed, if any: [tl, call]
    wc_features,      \* context->config.features
    wc_handlers,      \* per resource and handler id: "none", "cb" or "stub"
    wc_eps,           \* the destination UUIDs in worker->ep_hash
    wc_log,           \* history: the releases made, in order
    wc_rx,            \* the messages taken by a handler of the worker, the
                      \* messages dropped by the stub, and whether a handler
                      \* of the worker ran after the handlers were removed
    \* ---- the transport-API endpoint setup of a group of peers ----
    uct_cfg,        \* the group: interface flags, address lengths, and per
                    \* peer what its memory domain reports
    uct_pc,         \* per peer: its position in setup and teardown
    uct_i,          \* per peer: the loop index i of the receive loop
    uct_peers,      \* per peer: perf->uct.peers[], <<>> while not allocated
    uct_posted,     \* per peer: the record it posted, <<>> before it did
    uct_decoded,    \* per peer and sender, history: what it decoded
    uct_status,     \* per peer: "none", or what setup_endpoints returned
    uct_hist,       \* per peer, history: the releases and destroys it made
    \* ---- the median of the timing ring ----
    qs_arr,         \* perf->timing_queue, <<>> while no result is computed
    qs_type,        \* params.test_type
    qs_result,      \* <<>>, or what the selection and the result gave
    \* ---- the allocation of the perf buffers ----
    al_params,      \* the parameters of the run, <<>> while none
    al_held,        \* the buffers that are allocated or mapped
    al_log,         \* history: the allocations and frees, in order
    al_status,      \* "none", or what alloc_mem returned
    al_fault,       \* history: the step that failed, "none" if none did
    \* ---- peers in ucx_perf_run ----
    rn_cfg,         \* the API and whether a warmup is configured
    rn_pc,          \* per peer: its position in ucx_perf_run
    rn_entered,     \* per peer: the rendezvous barriers it has entered
    rn_status,      \* per peer: the status of its last run
    rn_hist,        \* per peer, history: its warmup status and its reports
    \* ---- the reply endpoints of a worker ----
    gr_pc,          \* the position of the main thread in get_reply_ep
    gr_uuid,        \* dest_uuid of the call under way
    gr_hash,        \* worker->ep_hash: per UUID "none", "stub" or "ep"
    gr_stubs,       \* worker->stub_ep_list, head first
    gr_async,       \* the depth of the async block
    gr_progress,    \* how often the stub-progress callback is registered
    gr_hist         \* history: what the calls returned and made

\* The endpoint-configuration cache and the atomic-resource selection.
cvars == <<ep_config, ep_config_count, ep_config_max, cfg_ret, presented>>
avars == <<features, atomic_mode, tl_rscs, tl_mds, iface_attrs, atomic_tls,
           atomic_init>>
\* The perf tool's state, which no worker call touches.
vvars == <<perf_params, perf_attr, perf_status, perf_features>>
rvars == <<setup_rkey, peer_pc, peer_status, peer_i, peer_coll, peer_array,
           peer_eps, peer_rkeys, peer_ret, peer_fault, rte_posted, rte_read>>
dvars == <<drv_params, drv_pc, drv_tctx, drv_statuses, drv_status>>
\* The perf runs and tests that are modelled after the endpoint setup.
mvars == <<am_pc, am_i, am_sender, am_buffers, am_txq, am_rx, am_registered,
           am_count, am_backlog, am_seen, am_refused, am_fail>>
kvars == <<wc_pc, wc_tl_id, wc_caps, wc_ifaces, wc_iface_wakeups,
           wc_open_ifaces, wc_open_wakeups, wc_status, wc_worker_p, wc_fault,
           wc_features, wc_handlers, wc_eps, wc_log, wc_rx>>
uvars == <<uct_cfg, uct_pc, uct_i, uct_peers, uct_posted, uct_decoded,
           uct_status, uct_hist>>
qvars == <<qs_arr, qs_type, qs_result>>
alvars == <<al_params, al_held, al_log, al_status, al_fault>>
pvars == <<rn_cfg, rn_pc, rn_entered, rn_status, rn_hist>>
gvars == <<gr_pc, gr_uuid, gr_hash, gr_stubs, gr_async, gr_progress, gr_hist>>
yvars == <<qvars, alvars, pvars, gvars>>
xvars == <<dvars, mvars, kvars, uvars, yvars>>
lvars == <<vvars, rvars, xvars>>
\* What the wakeup and progress calls leave alone.
wvars == <<thread_mode, num_tls, iface_wakeups, cvars, avars, lvars>>
svars == <<mt_lock, inprogress, wakeup_pipe, wakeup_efd, epoll_set,
           epoll_open, iface_events, terminated>>
tvars == <<pc, status, ret>>
vars == <<wvars, svars, tvars>>
\* What a step of the driver, and of the active-message test, leaves alone.
dframe == <<thread_mode, num_tls, iface_wakeups, cvars, avars, svars, tvars,
            vvars, rvars, mvars, kvars, uvars, yvars>>
mframe == <<thread_mode, num_tls, iface_wakeups, cvars, avars, svars, tvars,
            vvars, rvars, dvars, kvars, uvars, yvars>>
\* What a step of ucp_worker_create leaves alone.
kframe == <<thread_mode, num_tls, iface_wakeups, cvars, avars, svars, tvars,
            vvars, rvars, dvars, mvars, uvars, yvars>>
\* What a step of the transport-API endpoint setup leaves alone.
uframe == <<thread_mode, num_tls, iface_wakeups, cvars, avars, svars, tvars,
            vvars, rvars, dvars, mvars, kvars, yvars>>
\* What the selection of the median, the allocation of the buffers, the
\* peers of a run and the reply endpoints leave alone.
qframe == <<thread_mode, num_tls, iface_wakeups, cvars, avars, svars, tvars,
            vvars, rvars, dvars, mvars, kvars, uvars, alvars, pvars, gvars>>
alframe == <<thread_mode, num_tls, iface_wakeups, cvars, avars, svars, tvars,
             vvars, rvars, dvars, mvars, kvars, uvars, qvars, pvars, gvars>>
pframe == <<thread_mode, num_tls, iface_wakeups, cvars, avars, svars, tvars,
            vvars, rvars, dvars, mvars, kvars, uvars, qvars, alvars, gvars>>
gframe == <<thread_mode, num_tls, iface_wakeups, cvars, avars, svars, tvars,
            vvars, rvars, dvars, mvars, kvars, uvars, qvars, alvars, pvars>>

\* Resource indices of the worker.
Tls == 0 .. (num_tls - 1)
\* The descriptor of the pipe's read end, as registered in an epoll object
\* (interface i's wakeup descriptor is registered as i).
PIPE_FD == -1
\* Interfaces that opened a wakeup handle (UCT_IFACE_FLAG_WAKEUP).
WakeupTls == {i \in Tls : iface_wakeups[i]}

(***************************************************************************)
(* The worker lock.                                                        *)
(***************************************************************************)
\* UCP_THREAD_IS_REQUIRED: mt_type is NONE unless the thread mode is MULTI.
LockRequired == thread_mode = "MULTI"

\* UCP_THREAD_CS_ENTER_CONDITIONAL can proceed: no lock, lock free, or the
\* caller already owns it (ucp_worker_wait enters ucp_worker_get_efd with
\* the lock held, so the lock is entered recursively).
CanEnter(t) == (~LockRequired) \/ mt_lock.owner \in {0, t}

CsEnter(l, t) ==
    IF LockRequired THEN [owner |-> t, count |-> l.count + 1] ELSE l

CsExit(l, t) ==
    IF ~LockRequired THEN l
    ELSE IF l.count = 1 THEN [owner |-> 0, count |-> 0]
    ELSE [owner |-> t, count |-> l.count - 1]

(***************************************************************************)
(* Calls and returns.                                                      *)
(***************************************************************************)
\* A SINGLE-mode worker is used by one thread (thread 1); signal() is the
\* call any other thread makes to wake it up.
MayCall(t, op) == thread_mode = "MULTI" \/ t = 1 \/ op = "signal"

EntryPc(op) ==
    CASE op = "progress" -> "progress_enter"
      [] op = "get_efd"  -> "get_efd_enter"
      [] op = "arm"      -> "arm_ifaces"
      [] op = "wait"     -> "wait_enter"
      [] op = "signal"   -> "signal_enter"

Running == terminated = "none"

\* Thread t starts a call of op.
Call(t, op) ==
    /\ Running
    /\ pc[t] = "idle"
    /\ MayCall(t, op)
    /\ pc' = [pc EXCEPT ![t] = EntryPc(op)]
    /\ UNCHANGED <<wvars, svars, status, ret>>

\* Thread t returns with status s, errno e and *fd = f.
Return(t, s, e, f) ==
    /\ pc' = [pc EXCEPT ![t] = "idle"]
    /\ status' = [status EXCEPT ![t] = "NONE"]
    /\ ret' = [status |-> s, errno |-> e, fd |-> f]

\* A completion or an active message arrives on interface i.
IfaceEvent(i) ==
    /\ Running
    /\ i \in Tls
    /\ ~iface_events[i]
    /\ iface_events' = [iface_events EXCEPT ![i] = TRUE]
    /\ UNCHANGED <<wvars, tvars, mt_lock, inprogress, wakeup_pipe, wakeup_efd,
                   epoll_set, epoll_open, terminated>>

(***************************************************************************)
(* ucp_worker_progress                                                     *)
(***************************************************************************)
\* A progress entry that does not take the worker lock.
ProgressEnter_NoLock(t) ==
    /\ Running
    /\ pc[t] = "progress_enter"
    /\ inprogress' = inprogress + 1
    /\ IF inprogress = 0
       THEN pc' = [pc EXCEPT ![t] = "progress_uct"] /\ UNCHANGED terminated
       ELSE terminated' = "assert_inprogress" /\ UNCHANGED pc
    /\ UNCHANGED <<wvars, mt_lock, wakeup_pipe, wakeup_efd, epoll_set,
                   epoll_open, iface_events, status, ret>>

\* CS_ENTER, then ucs_assert(worker->inprogress++ == 0).
ProgressEnter(t) ==
    /\ Running
    /\ pc[t] = "progress_enter"
    /\ CanEnter(t)
    /\ mt_lock' = CsEnter(mt_lock, t)
    /\ inprogress' = inprogress + 1
    /\ IF inprogress = 0
       THEN pc' = [pc EXCEPT ![t] = "progress_uct"] /\ UNCHANGED terminated
       ELSE terminated' = "assert_inprogress" /\ UNCHANGED pc
    /\ UNCHANGED <<wvars, wakeup_pipe, wakeup_efd, epoll_set, epoll_open,
                   iface_events, status, ret>>

\* uct_worker_progress (the pending events of every interface are
\* processed), ucs_async_check_miss, ucs_assert(--worker->inprogress == 0),
\* CS_EXIT.
ProgressExit(t) ==
    /\ Running
    /\ pc[t] = "progress_uct"
    /\ iface_events' = [i \in Tls |-> FALSE]
    /\ inprogress' = inprogress - 1
    /\ IF inprogress - 1 = 0
       THEN /\ Return(t, "OK", "NONE", -1)
            /\ mt_lock' = CsExit(mt_lock, t)
            /\ UNCHANGED terminated
       ELSE /\ terminated' = "assert_inprogress"
            /\ UNCHANGED <<pc, status, ret, mt_lock>>
    /\ UNCHANGED <<wvars, wakeup_pipe, wakeup_efd, epoll_set, epoll_open>>

(***************************************************************************)
(* ucp_worker_get_efd                                                      *)
(***************************************************************************)
\* The descriptors a complete registration puts in the epoll object: the
\* pipe's read end and the wakeup descriptor of every interface that has
\* one.
FullEpollSet == {PIPE_FD} \cup WakeupTls

\* What epoll_create returns: the lowest free descriptor (epoll objects are
\* the only descriptors the model opens).
NewEpollFd == epoll_open

\* epoll_create(size) fails with EINVAL unless size is positive; it may
\* fail for want of descriptors or memory whatever the size.
EpollCreateMaySucceed(size) == size > 0

\* A get_efd that does not look at the slot: every call builds an epoll
\* object.
GetEfdResults_NoCache ==
    {[status |-> "IO_ERROR", fd |-> -1, efd |-> wakeup_efd,
      set |-> epoll_set, open |-> epoll_open]}
    \cup
    (IF ~EpollCreateMaySucceed(num_tls) THEN {}
     ELSE {[status |-> "OK", fd |-> NewEpollFd, efd |-> NewEpollFd,
            set |-> FullEpollSet, open |-> epoll_open + 1]})

\* The outcomes of the body of ucp_worker_get_efd between CS_ENTER and
\* CS_EXIT, each as [status, fd: what *fd is set to, efd, set, open: the
\* new values of wakeup_efd, epoll_set and epoll_open].
GetEfdResults ==
    IF wakeup_efd # -1
    THEN {[status |-> "OK", fd |-> wakeup_efd, efd |-> wakeup_efd,
           set |-> epoll_set, open |-> epoll_open]}
    ELSE {\* epoll_create failed
          [status |-> "IO_ERROR", fd |-> -1, efd |-> wakeup_efd,
           set |-> epoll_set, open |-> epoll_open]}
         \cup
         (IF ~EpollCreateMaySucceed(num_tls) THEN {}
          ELSE {\* ucp_worker_wakeup_add_fd or uct_wakeup_efd_get failed:
                \* epoll_cleanup closes res_fd with what was registered
                [status |-> "IO_ERROR", fd |-> -1, efd |-> wakeup_efd,
                 set |-> epoll_set, open |-> (epoll_open + 1) - 1],
                \* everything registered
                [status |-> "OK", fd |-> NewEpollFd, efd |-> NewEpollFd,
                 set |-> FullEpollSet, open |-> epoll_open + 1]})

GetEfd(t) ==
    /\ Running
    /\ pc[t] = "get_efd_enter"
    /\ CanEnter(t)
    /\ \E g \in GetEfdResults :
          /\ wakeup_efd' = g.efd
          /\ epoll_set' = g.set
          /\ epoll_open' = g.open
          /\ Return(t, g.status, "NONE", g.fd)
    /\ UNCHANGED <<wvars, mt_lock, inprogress, wakeup_pipe, iface_events,
                   terminated>>

(***************************************************************************)
(* ucp_worker_arm                                                          *)
(***************************************************************************)
\* uct_wakeup_efd_arm on interface i: BUSY while the interface has pending
\* work, else OK; the transport may also fail.
EfdArmResults(i) ==
    (IF iface_events[i] THEN {"BUSY"} ELSE {"OK"}) \cup {"IO_ERROR"}

\* The first loop of ucp_worker_arm over the results res of the
\* interfaces' uct_wakeup_efd_arm, from index k on: the first status that
\* is not OK is returned, OK when the loop runs to its end.
RECURSIVE ArmLoop(_, _)
ArmLoop(res, k) ==
    IF k >= num_tls THEN "OK"
    ELSE IF iface_wakeups[k] /\ res[k] # "OK" THEN res[k]
    ELSE ArmLoop(res, k + 1)

\* The statuses the first loop of ucp_worker_arm can end with.
ArmIfacesResults ==
    {ArmLoop(res, 0) : res \in {r \in [Tls -> {"OK", "BUSY", "IO_ERROR"}] :
                                   \A i \in Tls : r[i] \in EfdArmResults(i)}}

\* One read(wakeup_pipe[0], &buf, 1) of the drain loop on a pipe holding p
\* bytes: [res, errno, pipe].
PipeRead(p) ==
    (IF p > 0 THEN {[res |-> 1, errno |-> "NONE", pipe |-> p - 1]}
              ELSE {[res |-> -1, errno |-> "EAGAIN", pipe |-> p]})
    \cup {[res |-> -1, errno |-> "EIO", pipe |-> p]}

\* The drain loop of ucp_worker_arm goes on after a read that returned res.
DrainAgain(res) == res # -1

\* The status of ucp_worker_arm once the drain loop ended with errno e.
DrainStatus(e) == IF e # "EAGAIN" THEN "IO_ERROR" ELSE "OK"

\* ucp_worker_arm called by the application: the first loop.
ArmIfaces(t) ==
    /\ Running
    /\ pc[t] = "arm_ifaces"
    /\ \E s \in ArmIfacesResults :
          IF s = "OK"
          THEN pc' = [pc EXCEPT ![t] = "arm_drain"] /\ UNCHANGED <<status, ret>>
          ELSE Return(t, s, "NONE", -1)
    /\ UNCHANGED <<wvars, svars>>

\* ucp_worker_arm called by the application: one iteration of the drain
\* loop and, when it was the last, the return.
ArmDrain(t) ==
    /\ Running
    /\ pc[t] = "arm_drain"
    /\ \E r \in PipeRead(wakeup_pipe) :
          /\ wakeup_pipe' = r.pipe
          /\ IF DrainAgain(r.res)
             THEN UNCHANGED <<pc, status, ret>>
             ELSE Return(t, DrainStatus(r.errno), r.errno, -1)
    /\ UNCHANGED <<wvars, mt_lock, inprogress, wakeup_efd, epoll_set,
                   epoll_open, iface_events, terminated>>

(***************************************************************************)
(* ucp_worker_wait                                                         *)
(***************************************************************************)
\* CS_ENTER and ucp_worker_get_efd; on failure CS_EXIT and return.
WaitEnter(t) ==
    /\ Running
    /\ pc[t] = "wait_enter"
    /\ CanEnter(t)
    /\ \E g \in GetEfdResults :
          /\ wakeup_efd' = g.efd
          /\ epoll_set' = g.set
          /\ epoll_open' = g.open
          /\ IF g.status = "OK"
             THEN /\ pc' = [pc EXCEPT ![t] = "wait_arm"]
                  /\ mt_lock' = CsEnter(mt_lock, t)
                  /\ UNCHANGED <<status, ret>>
             ELSE /\ Return(t, g.status, "NONE", -1)
                  /\ UNCHANGED mt_lock
    /\ UNCHANGED <<wvars, inprogress, wakeup_pipe, iface_events, terminated>>

\* ucp_worker_arm called by ucp_worker_wait: the first loop.
WaitArmIfaces(t) ==
    /\ Running
    /\ pc[t] = "wait_arm"
    /\ \E s \in ArmIfacesResults :
          IF s = "OK"
          THEN pc' = [pc EXCEPT ![t] = "wait_drain"] /\ UNCHANGED status
          ELSE /\ pc' = [pc EXCEPT ![t] = "wait_armed"]
               /\ status' = [status EXCEPT ![t] = s]
    /\ UNCHANGED <<wvars, svars, ret>>

\* ucp_worker_arm called by ucp_worker_wait: one iteration of the drain
\* loop and, when it was the last, arm's return into wait's `status`.
WaitArmDrain(t) ==
    /\ Running
    /\ pc[t] = "wait_drain"
    /\ \E r \in PipeRead(wakeup_pipe) :
          /\ wakeup_pipe' = r.pipe
          /\ IF DrainAgain(r.res)
             THEN UNCHANGED <<pc, status>>
             ELSE /\ pc' = [pc EXCEPT ![t] = "wait_armed"]
                  /\ status' = [status EXCEPT ![t] = DrainStatus(r.errno)]
    /\ UNCHANGED <<wvars, mt_lock, inprogress, wakeup_efd, epoll_set,
                   epoll_open, iface_events, terminated, ret>>

\* A wait that goes on to epoll_wait when arm reported BUSY.
WaitAfterArm_BusyBlocks(s) ==
    IF s \notin {"OK", "BUSY"} THEN [block |-> FALSE, status |-> s]
    ELSE [block |-> TRUE, status |-> s]

\* What ucp_worker_wait does with the status s of ucp_worker_arm:
\* [block: go on to epoll_wait, status: what it returns otherwise].
WaitAfterArm(s) ==
    IF s = "BUSY" THEN [block |-> FALSE, status |-> "OK"]
    ELSE IF s # "OK" THEN [block |-> FALSE, status |-> s]
    ELSE [block |-> TRUE, status |-> s]

\* ucp_worker_wait after ucp_worker_arm returned, up to the epoll_wait.
WaitArmed(t) ==
    /\ Running
    /\ pc[t] = "wait_armed"
    /\ LET a == WaitAfterArm(status[t]) IN
       IF a.block
       THEN \/ \* events allocated
               /\ pc' = [pc EXCEPT ![t] = "wait_epoll"]
               /\ UNCHANGED <<status, ret, mt_lock>>
            \/ \* ucs_malloc of events failed
               /\ Return(t, "NO_MEMORY", "NONE", -1)
               /\ mt_lock' = CsExit(mt_lock, t)
       ELSE /\ Return(t, a.status, "NONE", -1)
            /\ mt_lock' = CsExit(mt_lock, t)
    /\ UNCHANGED <<wvars, inprogress, wakeup_pipe, wakeup_efd, epoll_set,
                   epoll_open, iface_events, terminated>>

\* The epoll object has a readable descriptor (level-triggered): the pipe
\* holds a byte, or a registered interface has pending work.
EpollReady ==
    \/ PIPE_FD \in epoll_set /\ wakeup_pipe > 0
    \/ \E i \in Tls : i \in epoll_set /\ iface_events[i]

\* epoll_wait returns with an event; CS_EXIT.
WaitEpoll(t) ==
    /\ Running
    /\ pc[t] = "wait_epoll"
    /\ EpollReady
    /\ Return(t, "OK", "NONE", -1)
    /\ mt_lock' = CsExit(mt_lock, t)
    /\ UNCHANGED <<wvars, inprogress, wakeup_pipe, wakeup_efd, epoll_set,
                   epoll_open, iface_events, terminated>>

\* epoll_wait fails with an error other than EINTR; CS_EXIT.
WaitEpollError(t) ==
    /\ Running
    /\ pc[t] = "wait_epoll"
    /\ Return(t, "IO_ERROR", "EIO", -1)
    /\ mt_lock' = CsExit(mt_lock, t)
    /\ UNCHANGED <<wvars, inprogress, wakeup_pipe, wakeup_efd, epoll_set,
                   epoll_open, iface_events, terminated>>

(***************************************************************************)
(* ucp_worker_signal                                                       *)
(***************************************************************************)
\* One write(wakeup_pipe[1], &buf, 1) on the non-blocking pipe holding p
\* bytes: [res, errno, pipe].
PipeWrite(p) ==
    (IF p < PipeCap THEN {[res |-> 1, errno |-> "NONE", pipe |-> p + 1]}
                    ELSE {[res |-> -1, errno |-> "EAGAIN", pipe |-> p]})
    \cup {[res |-> -1, errno |-> "EIO", pipe |-> p]}

\* A signal that reports every failed write, EAGAIN included.
SignalStatus_EagainFails(res, e) ==
    IF res # 1 THEN "IO_ERROR" ELSE "OK"

\* The status of ucp_worker_signal after a write that returned res with
\* errno e.
SignalStatus(res, e) ==
    IF (res # 1) /\ (e # "EAGAIN") THEN "IO_ERROR" ELSE "OK"

\* CS_ENTER, the write, CS_EXIT.
Signal(t) ==
    /\ Running
    /\ pc[t] = "signal_enter"
    /\ CanEnter(t)
    /\ \E w \in PipeWrite(wakeup_pipe) :
          /\ wakeup_pipe' = w.pipe
          /\ Return(t, SignalStatus(w.res, w.errno), w.errno, -1)
    /\ UNCHANGED <<wvars, mt_lock, inprogress, wakeup_efd, epoll_set,
                   epoll_open, iface_events, terminated>>

(***************************************************************************)
(* ucp_worker_get_ep_config: the endpoint-configuration cache              *)
(***************************************************************************)
UINT8_MAX == 255

ucs_min(a, b) == IF a < b THEN a ELSE b

\* A cache sized without the cap.
EpConfigMax_NoCap(n) == (n + 1) * (n + 1) * n

\* config_count of ucp_worker_create for a context of n resources: the
\* length of the ep_config array and the value of ep_config_max.
EpConfigMax(n) == ucs_min((n + 1) * (n + 1) * n, UINT8_MAX)

\* The keys presented to the cache. Key 0 is the key whose bytes are all
\* zero, as are the entries of the calloc'ed array that are not yet used.
Keys == 0 .. (NumKeys - 1)

\* An entry of the array as ucs_calloc leaves it.
ZeroConfig == [key |-> 0]

\* Structural equality of two keys.
ucp_ep_config_is_equal(k1, k2) == k1 = k2

\* A search that does not look at the entry it starts from.
EpConfigSearch_SkipFirst(key, idx) ==
    LET hits == {i \in (idx + 1) .. (ep_config_count - 1) :
                    ucp_ep_config_is_equal(ep_config[i].key, key)}
    IN  IF hits = {} THEN [found |-> FALSE, idx |-> ep_config_count]
        ELSE [found |-> TRUE,
              idx |-> CHOOSE i \in hits : \A j \in hits : i <= j]

\* The search loop of ucp_worker_get_ep_config from config_idx = idx on:
\* [found: the loop left by `goto out`, idx: config_idx when it ended].
RECURSIVE EpConfigSearch(_, _)
EpConfigSearch(key, idx) ==
    IF idx >= ep_config_count THEN [found |-> FALSE, idx |-> idx]
    ELSE IF ucp_ep_config_is_equal(ep_config[idx].key, key)
    THEN [found |-> TRUE, idx |-> idx]
    ELSE EpConfigSearch(key, idx + 1)

\* The presented keys after a call with key.
Present(key) ==
    IF \E n \in DOMAIN presented : presented[n] = key
    THEN presented ELSE Append(presented, key)

\* A call that never finds the cache full: the entry is written at
\* ep_config_count whatever the length of the array.
GetEpConfig_NoLimit(key) ==
    /\ Running
    /\ LET r == EpConfigSearch(key, 0) IN
          /\ IF r.found
             THEN /\ cfg_ret' = [key |-> key, idx |-> r.idx]
                  /\ UNCHANGED <<ep_config, ep_config_count>>
             ELSE /\ ep_config_count' = ep_config_count + 1
                  /\ ep_config' = (ep_config_count :> [key |-> key])
                                      @@ ep_config
                  /\ cfg_ret' = [key |-> key, idx |-> ep_config_count]
          /\ UNCHANGED terminated
    /\ presented' = Present(key)
    /\ UNCHANGED <<lvars, thread_mode, num_tls, iface_wakeups, ep_config_max,
                   avars, mt_lock, inprogress, wakeup_pipe, wakeup_efd, epoll_set,
                   epoll_open, iface_events, tvars>>

\* ucp_worker_get_ep_config(worker, key): the search, the fatal error when
\* the key is new and the cache is full, else the new entry; the index is
\* returned.
GetEpConfig(key) ==
    /\ Running
    /\ LET r == EpConfigSearch(key, 0) IN
          IF r.found
          THEN /\ cfg_ret' = [key |-> key, idx |-> r.idx]
               /\ UNCHANGED <<ep_config, ep_config_count, terminated>>
          ELSE IF ep_config_count >= ep_config_max
          THEN /\ terminated' = "fatal_ep_config"
               /\ UNCHANGED <<ep_config, ep_config_count, cfg_ret>>
          ELSE /\ ep_config_count' = ep_config_count + 1
               /\ ep_config' = [ep_config EXCEPT
                                   ![ep_config_count] = [key |-> key]]
               /\ cfg_ret' = [key |-> key, idx |-> ep_config_count]
               /\ UNCHANGED terminated
    /\ presented' = Present(key)
    /\ UNCHANGED <<lvars, thread_mode, num_tls, iface_wakeups, ep_config_max,
                   avars, mt_lock, inprogress, wakeup_pipe, wakeup_efd, epoll_set,
                   epoll_open, iface_events, tvars>>

(***************************************************************************)
(* ucp_worker_init_atomic_tls: the atomic-resource selector                *)
(***************************************************************************)
\* UCS_BIT(i) in the 64-bit mask (i is a resource index, below 64).
UCS_BIT(i) == 2 ^ i

\* mask & UCS_BIT(i) is not zero.
TestBit(mask, i) == (mask \div UCS_BIT(i)) % 2 = 1

\* An enable that sets the bit above the one of the resource.
ucp_worker_enable_atomic_tl_NextBit(mask, rsc_index) ==
    IF TestBit(mask, rsc_index + 1) THEN mask
    ELSE mask + UCS_BIT(rsc_index + 1)

\* ucp_worker_enable_atomic_tl: worker->atomic_tls |= UCS_BIT(rsc_index),
\* as the new value of the mask.
ucp_worker_enable_atomic_tl(mask, rsc_index) ==
    IF TestBit(mask, rsc_index) THEN mask ELSE mask + UCS_BIT(rsc_index)

\* The loop of ucp_worker_init_cpu_atomics from rsc_index on.
RECURSIVE ucp_worker_init_cpu_atomics(_, _)
ucp_worker_init_cpu_atomics(mask, rsc_index) ==
    IF rsc_index >= num_tls THEN mask
    ELSE IF "ATOMIC_CPU" \in iface_attrs[rsc_index].flags
    THEN ucp_worker_init_cpu_atomics(
             ucp_worker_enable_atomic_tl(mask, rsc_index), rsc_index + 1)
    ELSE ucp_worker_init_cpu_atomics(mask, rsc_index + 1)

\* iface_cap_flags of ucp_worker_init_device_atomics: the atomic operations
\* the features ask for (ucp_context_uct_atomic_iface_flags, one flag here)
\* and UCT_IFACE_FLAG_ATOMIC_DEVICE.
DeviceIfaceCapFlags == {"ATOMIC_OPS", "ATOMIC_DEVICE"}

\* The score of resource rsc_index against the dummy peer: a function of
\* the interface's attributes, kept with them.
ucp_wireup_amo_score_func(rsc_index) == iface_attrs[rsc_index].score

\* The first loop of ucp_worker_init_device_atomics does not `continue` on
\* resource rsc_index.
DeviceSupported(rsc_index) ==
    /\ "REG" \in tl_mds[tl_rscs[rsc_index].md_index]
    /\ DeviceIfaceCapFlags \subseteq iface_attrs[rsc_index].flags

\* The locals of ucp_worker_init_device_atomics before its first loop
\* (best_rsc -1 is NULL).
DeviceSelectInit ==
    [supp_tls |-> 0, best_rsc |-> -1, best_score |-> -1, best_priority |-> 0]

\* A first loop that keeps the first supported resource of the best score,
\* whatever the priorities.
RECURSIVE DeviceSelect_NoTieBreak(_, _)
DeviceSelect_NoTieBreak(st, rsc_index) ==
    IF rsc_index >= num_tls THEN st
    ELSE IF ~DeviceSupported(rsc_index)
    THEN DeviceSelect_NoTieBreak(st, rsc_index + 1)
    ELSE LET supp == ucp_worker_enable_atomic_tl(st.supp_tls, rsc_index)
             score == ucp_wireup_amo_score_func(rsc_index)
         IN  IF score > st.best_score
             THEN DeviceSelect_NoTieBreak(
                      [supp_tls |-> supp, best_rsc |-> rsc_index,
                       best_score |-> score,
                       best_priority |-> iface_attrs[rsc_index].priority],
                      rsc_index + 1)
             ELSE DeviceSelect_NoTieBreak([st EXCEPT !.supp_tls = supp],
                                          rsc_index + 1)

\* The first loop of ucp_worker_init_device_atomics from rsc_index on, over
\* its locals.
RECURSIVE DeviceSelect(_, _)
DeviceSelect(st, rsc_index) ==
    IF rsc_index >= num_tls THEN st
    ELSE IF ~DeviceSupported(rsc_index) THEN DeviceSelect(st, rsc_index + 1)
    ELSE LET supp == ucp_worker_enable_atomic_tl(st.supp_tls, rsc_index)
             priority == iface_attrs[rsc_index].priority
             score == ucp_wireup_amo_score_func(rsc_index)
         IN  IF \/ score > st.best_score
                \/ (score = st.best_score /\ priority > st.best_priority)
             THEN DeviceSelect([supp_tls |-> supp, best_rsc |-> rsc_index,
                                best_score |-> score,
                                best_priority |-> priority], rsc_index + 1)
             ELSE DeviceSelect([st EXCEPT !.supp_tls = supp], rsc_index + 1)

\* The second loop of ucp_worker_init_device_atomics from rsc_index on.
RECURSIVE DeviceEnable(_, _, _)
DeviceEnable(mask, st, rsc_index) ==
    IF rsc_index >= num_tls THEN mask
    ELSE IF /\ TestBit(st.supp_tls, rsc_index)
            /\ tl_rscs[rsc_index].md_index = tl_rscs[st.best_rsc].md_index
            /\ tl_rscs[rsc_index].dev_name = tl_rscs[st.best_rsc].dev_name
    THEN DeviceEnable(ucp_worker_enable_atomic_tl(mask, rsc_index), st,
                      rsc_index + 1)
    ELSE DeviceEnable(mask, st, rsc_index + 1)

ucp_worker_init_device_atomics(mask) ==
    LET st == DeviceSelect(DeviceSelectInit, 0) IN
    IF st.best_rsc = -1 THEN mask ELSE DeviceEnable(mask, st, 0)

\* accumulated_flags of ucp_worker_init_guess_atomics after its loop.
AccumulatedFlags == UNION {iface_attrs[i].flags : i \in Tls}

\* A guess that looks for host atomics first.
ucp_worker_init_guess_atomics_CpuFirst(mask) ==
    IF "ATOMIC_CPU" \in AccumulatedFlags
    THEN ucp_worker_init_cpu_atomics(mask, 0)
    ELSE ucp_worker_init_device_atomics(mask)

ucp_worker_init_guess_atomics(mask) ==
    IF "ATOMIC_DEVICE" \in AccumulatedFlags
    THEN ucp_worker_init_device_atomics(mask)
    ELSE ucp_worker_init_cpu_atomics(mask, 0)

\* A selector that does not look at the feature set.
InitAtomicTls_IgnoreFeatures ==
    /\ Running
    /\ atomic_init = "pending"
    /\ atomic_init' = "done"
    /\ atomic_tls' =
          CASE atomic_mode = "CPU" -> ucp_worker_init_cpu_atomics(0, 0)
            [] atomic_mode = "DEVICE" -> ucp_worker_init_device_atomics(0)
            [] OTHER -> ucp_worker_init_guess_atomics(0)
    /\ UNCHANGED <<lvars, thread_mode, num_tls, iface_wakeups, cvars, features,
                   atomic_mode, tl_rscs, tl_mds, iface_attrs, mt_lock,
                   inprogress, wakeup_pipe, wakeup_efd, epoll_set, epoll_open,
                   iface_events, terminated, tvars>>

\* ucp_worker_init_atomic_tls, the last step of ucp_worker_create.
InitAtomicTls ==
    /\ Running
    /\ atomic_init = "pending"
    /\ atomic_init' = "done"
    /\ IF features \cap {"AMO32", "AMO64"} # {}
       THEN CASE atomic_mode = "CPU" ->
                   /\ atomic_tls' = ucp_worker_init_cpu_atomics(0, 0)
                   /\ UNCHANGED terminated
              [] atomic_mode = "DEVICE" ->
                   /\ atomic_tls' = ucp_worker_init_device_atomics(0)
                   /\ UNCHANGED terminated
              [] atomic_mode = "GUESS" ->
                   /\ atomic_tls' = ucp_worker_init_guess_atomics(0)
                   /\ UNCHANGED terminated
              [] OTHER ->
                   /\ atomic_tls' = 0
                   /\ terminated' = "fatal_atomic_mode"
       ELSE /\ atomic_tls' = 0
            /\ UNCHANGED terminated
    /\ UNCHANGED <<lvars, thread_mode, num_tls, iface_wakeups, cvars, features,
                   atomic_mode, tl_rscs, tl_mds, iface_attrs, mt_lock,
                   inprogress, wakeup_pipe, wakeup_efd, epoll_set, epoll_open,
                   iface_events, tvars>>

(***************************************************************************)
(* The worker at run time: application threads calling into it.            *)
(***************************************************************************)
\* What ucp_worker_create leaves in the fields the calls work on.
CreatedState ==
    /\ mt_lock = [owner |-> 0, count |-> 0]
    /\ inprogress = 0
    /\ wakeup_pipe = 0
    /\ wakeup_efd = -1
    /\ epoll_set = {}
    /\ epoll_open = 0
    /\ iface_events = [i \in 0 .. (num_tls - 1) |-> FALSE]
    /\ terminated = "none"
    /\ pc = [t \in Threads |-> "idle"]
    /\ status = [t \in Threads |-> "NONE"]
    /\ ret = [status |-> "NONE", errno |-> "NONE", fd |-> -1]
    /\ ep_config_max = EpConfigMax(num_tls)
    /\ ep_config = [i \in 0 .. (EpConfigMax(num_tls) - 1) |-> ZeroConfig]
    /\ ep_config_count = 0
    /\ cfg_ret = [key |-> 0, idx |-> -1]
    /\ presented = <<>>

\* A context without atomics in its feature set, on interfaces without
\* atomic capabilities: the selector has run and enabled nothing.
NoAtomics ==
    /\ features = {"TAG"}
    /\ atomic_mode = "GUESS"
    /\ tl_mds = [m \in {0, 1} |-> {"REG"}]
    /\ tl_rscs = [i \in 0 .. (num_tls - 1) |->
                     [md_index |-> 0, dev_name |-> "mlx5_0"]]
    /\ iface_attrs = [i \in 0 .. (num_tls - 1) |->
                         [flags |-> {}, priority |-> 0, score |-> 1]]
    /\ atomic_tls = 0
    /\ atomic_init = "done"

\* No multi-thread run is under way.
NoDriver ==
    /\ drv_params = <<>>
    /\ drv_pc = "none"
    /\ drv_tctx = <<>>
    /\ drv_statuses = <<>>
    /\ drv_status = "none"

\* The many-to-one active-message test is not running.
NoAmTest ==
    /\ am_pc = "none"
    /\ am_i = 0
    /\ am_sender = 0
    /\ am_buffers = <<>>
    /\ am_txq = <<>>
    /\ am_rx = <<>>
    /\ am_registered = FALSE
    /\ am_count = 0
    /\ am_backlog = <<>>
    /\ am_seen = <<>>
    /\ am_refused = FALSE
    /\ am_fail = {}

\* No worker is being created.
NoCreate ==
    /\ wc_pc = "none"
    /\ wc_tl_id = 0
    /\ wc_caps = <<>>
    /\ wc_ifaces = <<>>
    /\ wc_iface_wakeups = <<>>
    /\ wc_open_ifaces = {}
    /\ wc_open_wakeups = {}
    /\ wc_status = "none"
    /\ wc_worker_p = FALSE
    /\ wc_fault = [tl |-> -1, call |-> "none"]
    /\ wc_features = {}
    /\ wc_handlers = <<>>
    /\ wc_eps = {}
    /\ wc_log = <<>>
    /\ wc_rx = [taken |-> 0, dropped |-> 0, late |-> FALSE]

\* No group is setting up transport-API endpoints.
NoUctSetup ==
    /\ uct_cfg = <<>>
    /\ uct_pc = <<>>
    /\ uct_i = <<>>
    /\ uct_peers = <<>>
    /\ uct_posted = <<>>
    /\ uct_decoded = <<>>
    /\ uct_status = <<>>
    /\ uct_hist = <<>>

\* No median is being selected.
NoSelect ==
    /\ qs_arr = <<>>
    /\ qs_type = "none"
    /\ qs_result = <<>>

\* No perf buffer is being allocated.
NoAlloc ==
    /\ al_params = <<>>
    /\ al_held = {}
    /\ al_log = <<>>
    /\ al_status = "none"
    /\ al_fault = "none"

\* No peer is in ucx_perf_run.
NoRun ==
    /\ rn_cfg = <<>>
    /\ rn_pc = <<>>
    /\ rn_entered = <<>>
    /\ rn_status = <<>>
    /\ rn_hist = <<>>

\* No reply endpoint is asked for.
NoReply ==
    /\ gr_pc = "none"
    /\ gr_uuid = "none"
    /\ gr_hash = <<>>
    /\ gr_stubs = <<>>
    /\ gr_async = 0
    /\ gr_progress = 0
    /\ gr_hist = <<>>

Later == NoSelect /\ NoAlloc /\ NoRun /\ NoReply

\* None of the later perf runs and tests is under way.
Idle == NoDriver /\ NoAmTest /\ NoCreate /\ NoUctSetup /\ Later

\* No peer has entered the endpoint setup.
NoPeers ==
    /\ setup_rkey = FALSE
    /\ peer_pc = <<>>
    /\ peer_status = <<>>
    /\ peer_i = <<>>
    /\ peer_coll = <<>>
    /\ peer_array = <<>>
    /\ peer_eps = <<>>
    /\ peer_rkeys = <<>>
    /\ peer_ret = <<>>
    /\ peer_fault = <<>>
    /\ rte_posted = <<>>
    /\ rte_read = <<>>

\* No group of peers is setting up endpoints.
NoSetup == NoPeers /\ Idle

\* No perf test is being set up.
NoPerfTest ==
    /\ perf_params = <<>>
    /\ perf_attr = <<>>
    /\ perf_status = "none"
    /\ perf_features = "none"
    /\ NoSetup

\* A created worker of either thread mode, with up to MaxTls interfaces,
\* any of which may have a wakeup handle.
Init ==
    /\ thread_mode \in {"SINGLE", "MULTI"}
    /\ num_tls \in 0 .. MaxTls
    /\ iface_wakeups \in [0 .. (num_tls - 1) -> BOOLEAN]
    /\ CreatedState
    /\ NoPerfTest
    /\ NoAtomics

\* The steps of a thread inside ucp_worker_progress, ucp_worker_arm and
\* ucp_worker_wait (the failure of a blocked epoll_wait apart).
ProgressStep(t) == ProgressEnter(t) \/ ProgressExit(t)

ArmStep(t) == ArmIfaces(t) \/ ArmDrain(t)

WaitStep(t) ==
    \/ WaitEnter(t)
    \/ WaitArmIfaces(t)
    \/ WaitArmDrain(t)
    \/ WaitArmed(t)
    \/ WaitEpoll(t)

\* Every thread may make every call.
Next ==
    \/ \E t \in Threads : Call(t, "progress")
    \/ \E t \in Threads : Call(t, "get_efd")
    \/ \E t \in Threads : Call(t, "arm")
    \/ \E t \in Threads : Call(t, "wait")
    \/ \E t \in Threads : Call(t, "signal")
    \/ \E i \in Tls : IfaceEvent(i)
    \/ \E t \in Threads : ProgressStep(t)
    \/ \E t \in Threads : GetEfd(t)
    \/ \E t \in Threads : ArmStep(t)
    \/ \E t \in Threads : WaitStep(t)
    \/ \E t \in Threads : WaitEpollError(t)
    \/ \E t \in Threads : Signal(t)

Spec == Init /\ [][Next]_vars

\* Signalling and arming: threads signal the worker and arm it.
ArmSignalNext ==
    \/ \E t \in Threads : Call(t, "arm")
    \/ \E t \in Threads : Call(t, "signal")
    \/ \E i \in Tls : IfaceEvent(i)
    \/ \E t \in Threads : ArmStep(t)
    \/ \E t \in Threads : Signal(t)

ArmSignalSpec == Init /\ [][ArmSignalNext]_vars

\* Waiting: threads wait for the worker and signal it.
SignalWaitNext ==
    \/ \E t \in Threads : Call(t, "wait")
    \/ \E t \in Threads : Call(t, "signal")
    \/ \E i \in Tls : IfaceEvent(i)
    \/ \E t \in Threads : WaitStep(t)
    \/ \E t \in Threads : WaitEpollError(t)
    \/ \E t \in Threads : Signal(t)

SignalWaitSpec == Init /\ [][SignalWaitNext]_vars

\* The same with the threads scheduled fairly: every call a thread has made
\* goes on while it can. Nothing obliges the application to make a call, an
\* interface to receive, or a blocked epoll_wait to fail.
SignalWaitFairSpec ==
    /\ Init
    /\ [][SignalWaitNext]_vars
    /\ \A t \in Threads : WF_vars(WaitStep(t) \/ Signal(t))

\* The event descriptor: threads get it, directly or by waiting.
EfdNext ==
    \/ \E t \in Threads : Call(t, "get_efd")
    \/ \E t \in Threads : Call(t, "wait")
    \/ \E i \in Tls : IfaceEvent(i)
    \/ \E t \in Threads : GetEfd(t)
    \/ \E t \in Threads : WaitStep(t)
    \/ \E t \in Threads : WaitEpollError(t)

EfdSpec == Init /\ [][EfdNext]_vars

\* Progress: threads progress the worker while others wait for it.
ProgressNext ==
    \/ \E t \in Threads : Call(t, "progress")
    \/ \E t \in Threads : Call(t, "wait")
    \/ \E i \in Tls : IfaceEvent(i)
    \/ \E t \in Threads : ProgressStep(t)
    \/ \E t \in Threads : WaitStep(t)
    \/ \E t \in Threads : WaitEpollError(t)

ProgressSpec == Init /\ [][ProgressNext]_vars

\* The endpoint-configuration cache of a created worker: endpoints ask for
\* the index of their configuration key.
EpConfigInit ==
    /\ thread_mode = "SINGLE"
    /\ num_tls \in 0 .. MaxCfgTls
    /\ iface_wakeups = [i \in 0 .. (num_tls - 1) |-> FALSE]
    /\ CreatedState
    /\ NoPerfTest
    /\ NoAtomics

EpConfigNext == \E key \in Keys : GetEpConfig(key)

EpConfigSpec == EpConfigInit /\ [][EpConfigNext]_vars

\* The feature sets, policies, memory domains, devices and interface
\* attributes the selector is run on.
FeatureSets == {{"TAG"}, {"TAG", "AMO32"}, {"TAG", "AMO64"}}

AtomicModes == {"CPU", "DEVICE", "GUESS"}

MdAttrs == {[m \in {0, 1} |-> {"REG"}],
            [m \in {0, 1} |-> IF m = 0 THEN {"REG"} ELSE {}]}

Devices == {[md_index |-> 0, dev_name |-> "mlx5_0"],
            [md_index |-> 0, dev_name |-> "mlx5_1"],
            [md_index |-> 1, dev_name |-> "mlx5_0"]}

IfaceAttrs ==
    {[flags |-> f, priority |-> r[1], score |-> r[2]] :
        f \in {{}, {"ATOMIC_CPU"}, {"ATOMIC_DEVICE"},
                {"ATOMIC_DEVICE", "ATOMIC_OPS"},
                {"ATOMIC_CPU", "ATOMIC_DEVICE", "ATOMIC_OPS"}},
        r \in {<<0, 1>>, <<1, 1>>, <<0, 2>>}}

\* ucp_worker_create up to its last step: the interfaces are open, their
\* attributes queried, the mask zero as ucs_calloc left it.
AtomicInit ==
    /\ thread_mode = "SINGLE"
    /\ num_tls \in 0 .. MaxAtomicTls
    /\ iface_wakeups = [i \in 0 .. (num_tls - 1) |-> FALSE]
    /\ CreatedState
    /\ NoPerfTest
    /\ features \in FeatureSets
    /\ atomic_mode \in AtomicModes
    /\ tl_mds \in MdAttrs
    /\ tl_rscs \in [0 .. (num_tls - 1) -> Devices]
    /\ iface_attrs \in [0 .. (num_tls - 1) -> IfaceAttrs]
    /\ atomic_tls = 0
    /\ atomic_init = "pending"

AtomicNext == InitAtomicTls

AtomicSpec == AtomicInit /\ [][AtomicNext]_vars

(***************************************************************************)
(* The perf tool's parameter and capability validators                     *)
(* (src/src/tools/perf/libperf.c).                                         *)
(***************************************************************************)
RECURSIVE SumList(_)
SumList(l) == IF l = <<>> THEN 0 ELSE Head(l) + SumList(Tail(l))

\* ucx_perf_get_message_size: the total of msg_size_list.
ucx_perf_get_message_size(params) == SumList(params.msg_size_list)

\* The largest fc_window the transport-API tests allow.
UCT_PERF_TEST_MAX_FC_WINDOW == 127

\* ucx_perf_test_check_params without the loop over msg_size_list.
ucx_perf_test_check_params_NoStride(params) ==
    IF ucx_perf_get_message_size(params) < 1
    THEN "INVALID_PARAM"
    ELSE IF params.max_outstanding < 1
    THEN "INVALID_PARAM"
    ELSE "OK"

\* ucx_perf_test_check_params: the checks both API paths share.
ucx_perf_test_check_params(params) ==
    IF ucx_perf_get_message_size(params) < 1
    THEN "INVALID_PARAM"
    ELSE IF params.max_outstanding < 1
    THEN "INVALID_PARAM"
    ELSE IF /\ params.iov_stride # 0
            /\ \E it \in 1 .. Len(params.msg_size_list) :
                   params.msg_size_list[it] > params.iov_stride
    THEN "INVALID_PARAM"
    ELSE "OK"

\* __get_flag with the bcopy and zcopy flags taken for one another.
get_flag_Swapped(layout, short_f, bcopy_f, zcopy_f) ==
    CASE layout = "SHORT" -> short_f
      [] layout = "BCOPY" -> zcopy_f
      [] layout = "ZCOPY" -> bcopy_f
      [] OTHER -> {}

\* __get_flag: the flag of the layout, 0 (no flag) for an unknown layout.
\* A uint64_t flag word is modelled by the set of its flags.
get_flag(layout, short_f, bcopy_f, zcopy_f) ==
    CASE layout = "SHORT" -> short_f
      [] layout = "BCOPY" -> bcopy_f
      [] layout = "ZCOPY" -> zcopy_f
      [] OTHER -> {}

\* __get_atomic_flag: the flag of the operand size, 0 for any other size.
get_atomic_flag(size, flag32, flag64) ==
    CASE size = 4 -> flag32
      [] size = 8 -> flag64
      [] OTHER -> {}

\* __get_max_size: the limit of the layout, 0 for an unknown layout.
get_max_size(layout, short_m, bcopy_m, zcopy_m) ==
    CASE layout = "SHORT" -> short_m
      [] layout = "BCOPY" -> bcopy_m
      [] layout = "ZCOPY" -> zcopy_m
      [] OTHER -> 0

AtomicCommands == {"ADD", "FADD", "SWAP", "CSWAP"}

\* The switch over params->command in uct_perf_test_check_capabilities:
\* what the command and the layout require of the interface. `valid` is
\* FALSE in the default case.
CommandRequirements(params, attr) ==
    LET layout == params.data_layout
        message_size == ucx_perf_get_message_size(params)
        none == [valid |-> FALSE, required_flags |-> {}, min_size |-> 0,
                 max_size |-> 0, max_iov |-> 1]
    IN  CASE params.command = "AM" ->
               [valid |-> TRUE,
                required_flags |->
                    get_flag(layout, {"AM_SHORT"}, {"AM_BCOPY"}, {"AM_ZCOPY"})
                        \cup {"AM_CB_SYNC"},
                min_size |-> get_max_size(layout, 0, 0, attr.am.min_zcopy),
                max_size |-> get_max_size(layout, attr.am.max_short,
                                          attr.am.max_bcopy,
                                          attr.am.max_zcopy),
                max_iov |-> attr.am.max_iov]
          [] params.command = "PUT" ->
               [valid |-> TRUE,
                required_flags |->
                    get_flag(layout, {"PUT_SHORT"}, {"PUT_BCOPY"},
                             {"PUT_ZCOPY"}),
                min_size |-> get_max_size(layout, 0, 0, attr.put.min_zcopy),
                max_size |-> get_max_size(layout, attr.put.max_short,
                                          attr.put.max_bcopy,
                                          attr.put.max_zcopy),
                max_iov |-> attr.put.max_iov]
          [] params.command = "GET" ->
               [valid |-> TRUE,
                required_flags |->
                    get_flag(layout, {}, {"GET_BCOPY"}, {"GET_ZCOPY"}),
                min_size |-> get_max_size(layout, 0, 0, attr.get.min_zcopy),
                max_size |-> get_max_size(layout, 0, attr.get.max_bcopy,
                                          attr.get.max_zcopy),
                max_iov |-> attr.get.max_iov]
          [] params.command \in AtomicCommands ->
               [valid |-> TRUE,
                required_flags |->
                    get_atomic_flag(message_size,
                                    {"ATOMIC_" \o params.command \o "32"},
                                    {"ATOMIC_" \o params.command \o "64"}),
                min_size |-> 0,
                max_size |-> 8,
                max_iov |-> 1]
          [] OTHER -> none

\* The AM checks without the bound on fc_window.
AmChecks_NoFcWindow(params, attr) ==
    LET message_size == ucx_perf_get_message_size(params)
    IN  IF params.data_layout = "SHORT" /\ params.am_hdr_size # 8
        THEN "INVALID_PARAM"
        ELSE IF /\ params.data_layout = "ZCOPY"
                /\ params.am_hdr_size > attr.am.max_hdr
        THEN "UNSUPPORTED"
        ELSE IF params.am_hdr_size > message_size
        THEN "INVALID_PARAM"
        ELSE "OK"

\* The checks of uct_perf_test_check_capabilities made for the AM command
\* only: "OK" when all of them pass.
AmChecks(params, attr) ==
    LET message_size == ucx_perf_get_message_size(params)
    IN  IF params.data_layout = "SHORT" /\ params.am_hdr_size # 8
        THEN "INVALID_PARAM"
        ELSE IF /\ params.data_layout = "ZCOPY"
                /\ params.am_hdr_size > attr.am.max_hdr
        THEN "UNSUPPORTED"
        ELSE IF params.am_hdr_size > message_size
        THEN "INVALID_PARAM"
        ELSE IF params.fc_window > UCT_PERF_TEST_MAX_FC_WINDOW
        THEN "INVALID_PARAM"
        ELSE "OK"   \* ONE_SIDED is warned about, nothing more

\* The ZCOPY checks without the comparison of the AM header with the first
\* list entry.
ZcopyChecks_NoFirstEntry(params, max_iov) ==
    IF Len(params.msg_size_list) > max_iov THEN "UNSUPPORTED" ELSE "OK"

\* The ZCOPY checks without the comparison of msg_size_cnt with max_iov.
ZcopyChecks_NoIovCount(params, max_iov) ==
    IF /\ params.command = "AM"
       /\ Len(params.msg_size_list) > 1
       /\ params.am_hdr_size > params.msg_size_list[1]
    THEN "INVALID_PARAM"
    ELSE "OK"

\* The checks of uct_perf_test_check_capabilities made for the ZCOPY layout
\* only.
ZcopyChecks(params, max_iov) ==
    IF Len(params.msg_size_list) > max_iov
    THEN "UNSUPPORTED"
    ELSE IF /\ params.command = "AM"
            /\ Len(params.msg_size_list) > 1
            /\ params.am_hdr_size > params.msg_size_list[1]
    THEN "INVALID_PARAM"
    ELSE "OK"

\* uct_perf_test_check_capabilities(params, iface), attr being what
\* uct_iface_query(iface) reports.
uct_perf_test_check_capabilities(params, attr) ==
    LET req == CommandRequirements(params, attr.cap)
        message_size == ucx_perf_get_message_size(params)
        checked == ucx_perf_test_check_params(params)
        am == IF params.command = "AM"
              THEN AmChecks(params, attr.cap) ELSE "OK"
    IN  IF attr.query # "OK" THEN attr.query
        ELSE IF ~req.valid THEN "INVALID_PARAM"
        ELSE IF checked # "OK" THEN checked
        ELSE IF \/ ~(req.required_flags \subseteq attr.cap.flags)
                \/ req.required_flags = {}
        THEN "UNSUPPORTED"
        ELSE IF message_size < req.min_size THEN "UNSUPPORTED"
        ELSE IF message_size > req.max_size THEN "UNSUPPORTED"
        ELSE IF am # "OK" THEN am
        ELSE IF params.data_layout = "ZCOPY"
        THEN ZcopyChecks(params, req.max_iov)
        ELSE "OK"

\* The conversion of a size_t to ucs_status_t, the type in which
\* ucp_perf_test_check_params keeps the message size: a one-byte signed
\* enumeration, the value modulo 2^8.
ToStatusT(x) ==
    LET m == x % 256 IN IF m >= 128 THEN m - 256 ELSE m

\* ucp_perf_test_check_params(params, &features): [status, features], with
\* features "none" where *features is left unassigned.
ucp_perf_test_check_params(params) ==
    LET message_size == ToStatusT(ucx_perf_get_message_size(params))
        checked(f) == [status |-> ucx_perf_test_check_params(params),
                       features |-> f]
        invalid == [status |-> "INVALID_PARAM", features |-> "none"]
    IN  CASE params.command \in {"PUT", "GET"} -> checked("RMA")
          [] params.command \in AtomicCommands ->
               IF message_size = 4 THEN checked("AMO32")
               ELSE IF message_size = 8 THEN checked("AMO64")
               ELSE invalid
          [] params.command = "TAG" -> checked("TAG")
          [] OTHER -> invalid

\* The transport-API setup validates its parameters against the interface.
UctCheck ==
    /\ perf_status = "none"
    /\ perf_params.api = "UCT"
    /\ perf_status' = uct_perf_test_check_capabilities(perf_params, perf_attr)
    /\ UNCHANGED <<perf_params, perf_attr, perf_features>>
    /\ UNCHANGED <<thread_mode, num_tls, iface_wakeups, cvars, avars, svars,
                   tvars, rvars, xvars>>

\* The messaging-API setup validates its parameters and derives the
\* features to request.
UcpCheck ==
    /\ perf_status = "none"
    /\ perf_params.api = "UCP"
    /\ LET r == ucp_perf_test_check_params(perf_params)
       IN  /\ perf_status' = r.status
           /\ perf_features' = r.features
    /\ UNCHANGED <<perf_params, perf_attr>>
    /\ UNCHANGED <<thread_mode, num_tls, iface_wakeups, cvars, avars, svars,
                   tvars, rvars, xvars>>

\* The parameters and interfaces the validators are run on.
Commands == {"AM", "PUT", "GET", "ADD", "FADD", "SWAP", "CSWAP", "TAG",
             "LAST"}

Layouts == {"SHORT", "BCOPY", "ZCOPY", "LAST"}

MsgSizeLists ==
    {<<s>> : s \in {0, 4, 5, 8, 260}} \cup {<<4, 4>>, <<4, 8>>, <<8, 4>>}

PerfParams ==
    [api : {"UCT", "UCP"},
     command : Commands,
     data_layout : Layouts,
     msg_size_list : MsgSizeLists,
     iov_stride : {0, 4},
     max_outstanding : {0, 1},
     am_hdr_size : {4, 8},
     fc_window : {1, UCT_PERF_TEST_MAX_FC_WINDOW + 1},
     flags : {{}, {"ONE_SIDED"}}]

IfaceFlags ==
    {"AM_SHORT", "AM_BCOPY", "AM_ZCOPY", "AM_CB_SYNC", "PUT_SHORT",
     "PUT_BCOPY", "PUT_ZCOPY", "GET_BCOPY", "GET_ZCOPY"}
        \cup {"ATOMIC_" \o c \o w : c \in AtomicCommands, w \in {"32", "64"}}

\* Every flag, every flag but one, no flag.
IfaceFlagSets == {IfaceFlags, {}} \cup {IfaceFlags \ {f} : f \in IfaceFlags}

\* The limits of an interface that admits every message of MsgSizeLists up
\* to 16 bytes, and the same with one limit tightened.
GenerousLimits ==
    [max_short |-> 8, max_bcopy |-> 16, max_zcopy |-> 16, min_zcopy |-> 0,
     max_hdr |-> 8, max_iov |-> 2]

TightLimits ==
    {[GenerousLimits EXCEPT !.max_short = 4],
     [GenerousLimits EXCEPT !.max_bcopy = 4],
     [GenerousLimits EXCEPT !.max_zcopy = 4],
     [GenerousLimits EXCEPT !.min_zcopy = 5],
     [GenerousLimits EXCEPT !.max_hdr = 4],
     [GenerousLimits EXCEPT !.max_iov = 1]}

\* An interface attribute record whose am, put and get limits are l.
IfaceAttr(q, f, l) ==
    [query |-> q,
     cap |-> [flags |-> f, am |-> l, put |-> l, get |-> l]]

PerfIfaceAttrs ==
    {IfaceAttr("OK", f, GenerousLimits) : f \in IfaceFlagSets}
        \cup {IfaceAttr("OK", f, l) : f \in {IfaceFlags, {}},
                                      l \in TightLimits}
        \cup {IfaceAttr("IO_ERROR", IfaceFlags, GenerousLimits)}

\* The interfaces of the host while the messaging API validates: the
\* validator is not handed one.
UcpIfaceAttrs ==
    {IfaceAttr("OK", IfaceFlags, l) :
        l \in {GenerousLimits, [GenerousLimits EXCEPT !.max_zcopy = 4],
               [GenerousLimits EXCEPT !.max_iov = 1]}}

\* A perf test about to be set up: its parameters are read, the worker of
\* the earlier sections is not in use.
ValidatorInit ==
    /\ thread_mode = "SINGLE"
    /\ num_tls = 0
    /\ iface_wakeups = [i \in 0 .. (num_tls - 1) |-> FALSE]
    /\ CreatedState
    /\ NoAtomics
    /\ perf_params \in PerfParams
    /\ perf_attr \in IF perf_params.api = "UCT"
                     THEN PerfIfaceAttrs ELSE UcpIfaceAttrs
    /\ perf_status = "none"
    /\ perf_features = "none"
    /\ NoSetup

ValidatorNext == UctCheck \/ UcpCheck

ValidatorSpec == ValidatorInit /\ [][ValidatorNext]_vars

(***************************************************************************)
(* ucp_perf_test_setup_endpoints: the peers of a group exchange their      *)
(* addresses through the rendezvous collaborator, connect, and exchange a  *)
(* status.                                                                 *)
(***************************************************************************)
\* Number of peers in the group (group_size).
NumPeers == 2

Peers == 0 .. (NumPeers - 1)

\* The failures of the calls setup makes into the messaging library.
Errors == {"NO_MEMORY", "UNREACHABLE"}

\* The vectors a peer posts: its info record with address (and remote key
\* when rkey_size > 0), or one status.
InfoVec == [kind |-> "info", rkey |-> setup_rkey]
StatusVec(s) == [kind |-> "status", status |-> s]

\* rte post_vec: peer p hands the vectors vs to the collaborator, which
\* delivers them to every peer in the order posted.
RtePost(p, vs) == rte_posted' = [rte_posted EXCEPT ![p] = @ \o vs]

\* rte recv from peer i: possible once i has posted a vector p has not
\* read; it reads the oldest such vector.
RteCanRecv(p, i) == rte_read[p][i] < Len(rte_posted[i])
RteNext(p, i) == rte_posted[i][rte_read[p][i] + 1]
RteRecv(p, i) == rte_read' = [rte_read EXCEPT ![p][i] = @ + 1]

\* What a status exchange reads out of a received vector: the status, or
\* any status when the bytes are those of an info record.
StatusesIn(v) ==
    IF v.kind = "status" THEN {v.status} ELSE {"OK"} \cup Errors

\* What the connect loop reads as rkey_size > 0 out of a received vector:
\* the sender's, or anything when the bytes are those of a status.
RkeyFlagsIn(v) == IF v.kind = "info" THEN {v.rkey} ELSE BOOLEAN

\* The first index after i that is not group_index, NumPeers if none.
NextOther(p, i) ==
    LET later == {j \in Peers : j > i /\ j # p}
    IN  IF later = {} THEN NumPeers
        ELSE CHOOSE j \in later : \A k \in later : j <= k

\* ucp_perf_test_destroy_eps: every remote key and endpoint is destroyed
\* and the peer array freed.
DestroyEps(p) ==
    /\ peer_eps' = [peer_eps EXCEPT ![p] = {}]
    /\ peer_rkeys' = [peer_rkeys EXCEPT ![p] = {}]
    /\ peer_array' = [peer_array EXCEPT ![p] = FALSE]

\* Peer p enters ucp_perf_test_exchange_status at site ("xchg_ok": line
\* 983, "xchg_err": line 994) having posted the vectors vs so far in this
\* step; s is its local status.
EnterExchange(p, site, s, vs) ==
    /\ RtePost(p, vs \o <<StatusVec(IF site = "xchg_ok" THEN "OK" ELSE s)>>)
    /\ peer_pc' = [peer_pc EXCEPT ![p] = site]
    /\ peer_status' = [peer_status EXCEPT ![p] = s]
    /\ peer_i' = [peer_i EXCEPT ![p] = 0]
    /\ peer_coll' = [peer_coll EXCEPT ![p] = "OK"]

\* History: call f failed on peer p, or p misread a vector.
Fault(p, f) == peer_fault' = [peer_fault EXCEPT ![p] = @ \cup {f}]

\* ucp_perf_test_setup_endpoints up to the first receive: the address, the
\* remote key, the posting of the info record, the two allocations.
SetupStart(p) ==
    /\ peer_pc[p] = "start"
    /\ \/ \* ucp_worker_get_address fails, or (with a remote key to pack)
          \* ucp_rkey_pack does: goto err
          /\ \E e \in Errors : EnterExchange(p, "xchg_err", e, <<>>)
          /\ \E f \in {"get_address"} \cup
                       (IF setup_rkey THEN {"rkey_pack"} ELSE {}) : Fault(p, f)
          /\ UNCHANGED <<peer_array, peer_eps, peer_rkeys>>
       \/ \* calloc of the peer array fails: goto err, status still UCS_OK
          /\ EnterExchange(p, "xchg_err", "OK", <<InfoVec>>)
          /\ Fault(p, "calloc")
          /\ UNCHANGED <<peer_array, peer_eps, peer_rkeys>>
       \/ \* malloc of the receive buffer fails: goto err_destroy_eps
          /\ EnterExchange(p, "xchg_err", "NO_MEMORY", <<InfoVec>>)
          /\ Fault(p, "malloc")
          /\ DestroyEps(p)
       \/ \* on to the connect loop
          /\ RtePost(p, <<InfoVec>>)
          /\ UNCHANGED peer_fault
          /\ peer_array' = [peer_array EXCEPT ![p] = TRUE]
          /\ IF NextOther(p, -1) < NumPeers
             THEN /\ peer_pc' = [peer_pc EXCEPT ![p] = "connect"]
                  /\ peer_i' = [peer_i EXCEPT ![p] = NextOther(p, -1)]
             ELSE /\ peer_pc' = [peer_pc EXCEPT ![p] = "connected"]
                  /\ UNCHANGED peer_i
          /\ UNCHANGED <<peer_status, peer_coll, peer_eps, peer_rkeys>>
    /\ UNCHANGED <<setup_rkey, peer_ret, rte_read>>
    /\ UNCHANGED <<thread_mode, num_tls, iface_wakeups, cvars, avars, svars,
                   tvars, vvars, xvars>>

\* One iteration of the connect loop: receive peer i's record, create the
\* endpoint, unpack the remote key.
Connect(p) ==
    LET i == peer_i[p] IN
    /\ peer_pc[p] = "connect"
    /\ RteCanRecv(p, i)
    /\ RteRecv(p, i)
    /\ \/ \* ucp_ep_create fails, or ucp_ep_rkey_unpack does: goto
          \* err_free_buffer
          /\ \E e \in Errors : EnterExchange(p, "xchg_err", e, <<>>)
          /\ Fault(p, IF RteNext(p, i).kind = "info"
                      THEN "connect" ELSE "misread")
          /\ DestroyEps(p)
       \/ \* both succeed
          /\ IF RteNext(p, i).kind = "info"
             THEN UNCHANGED peer_fault ELSE Fault(p, "misread")
          /\ \E has_rkey \in RkeyFlagsIn(RteNext(p, i)) :
                /\ peer_eps' = [peer_eps EXCEPT ![p] = @ \cup {i}]
                /\ peer_rkeys' = [peer_rkeys EXCEPT ![p] =
                                     IF has_rkey THEN @ \cup {i} ELSE @]
          /\ IF NextOther(p, i) < NumPeers
             THEN /\ peer_i' = [peer_i EXCEPT ![p] = NextOther(p, i)]
                  /\ UNCHANGED peer_pc
             ELSE /\ peer_pc' = [peer_pc EXCEPT ![p] = "connected"]
                  /\ UNCHANGED peer_i
          /\ UNCHANGED <<peer_status, peer_coll, peer_array, rte_posted>>
    /\ UNCHANGED <<setup_rkey, peer_ret>>
    /\ UNCHANGED <<thread_mode, num_tls, iface_wakeups, cvars, avars, svars,
                   tvars, vvars, xvars>>

\* The loop is over: free(buffer) and into the status exchange with UCS_OK.
Connected(p) ==
    /\ peer_pc[p] = "connected"
    /\ EnterExchange(p, "xchg_ok", "OK", <<>>)
    /\ UNCHANGED <<setup_rkey, peer_array, peer_eps, peer_rkeys, peer_ret,
                   peer_fault, rte_read>>
    /\ UNCHANGED <<thread_mode, num_tls, iface_wakeups, cvars, avars, svars,
                   tvars, vvars, xvars>>

\* One iteration of the loop of ucp_perf_test_exchange_status (it receives
\* from every peer, itself included) and, after the last, the return of
\* ucp_perf_test_setup_endpoints.
ExchangeStatus(p) ==
    LET i == peer_i[p] IN
    /\ peer_pc[p] \in {"xchg_ok", "xchg_err"}
    /\ RteCanRecv(p, i)
    /\ RteRecv(p, i)
    /\ IF RteNext(p, i).kind = "status"
       THEN UNCHANGED peer_fault ELSE Fault(p, "misread")
    /\ \E s \in StatusesIn(RteNext(p, i)) :
          LET coll == IF s # "OK" THEN s ELSE peer_coll[p] IN
          IF i + 1 < NumPeers
          THEN /\ peer_i' = [peer_i EXCEPT ![p] = i + 1]
               /\ peer_coll' = [peer_coll EXCEPT ![p] = coll]
               /\ UNCHANGED <<peer_pc, peer_status, peer_ret, peer_array,
                              peer_eps, peer_rkeys>>
          ELSE /\ peer_pc' = [peer_pc EXCEPT ![p] = "done"]
               /\ peer_coll' = [peer_coll EXCEPT ![p] = coll]
               /\ UNCHANGED peer_i
               /\ IF peer_pc[p] = "xchg_ok"
                  THEN \* status = exchange_status(perf, UCS_OK)
                       /\ peer_status' = [peer_status EXCEPT ![p] = coll]
                       /\ peer_ret' = [peer_ret EXCEPT ![p] = coll]
                       /\ IF coll # "OK"
                          THEN DestroyEps(p)
                          ELSE UNCHANGED <<peer_array, peer_eps, peer_rkeys>>
                  ELSE \* (void)exchange_status(perf, status)
                       /\ peer_ret' = [peer_ret EXCEPT ![p] = peer_status[p]]
                       /\ UNCHANGED <<peer_status, peer_array, peer_eps,
                                      peer_rkeys>>
    /\ UNCHANGED <<setup_rkey, rte_posted>>
    /\ UNCHANGED <<thread_mode, num_tls, iface_wakeups, cvars, avars, svars,
                   tvars, vvars, xvars>>

\* The peers of a group enter ucp_perf_test_setup_endpoints, all with the
\* same features.
SetupInit ==
    /\ thread_mode = "SINGLE"
    /\ num_tls = 0
    /\ iface_wakeups = [i \in 0 .. (num_tls - 1) |-> FALSE]
    /\ CreatedState
    /\ NoAtomics
    /\ perf_params = <<>>
    /\ perf_attr = <<>>
    /\ perf_status = "none"
    /\ perf_features = "none"
    /\ setup_rkey \in BOOLEAN
    /\ peer_pc = [p \in Peers |-> "start"]
    /\ peer_status = [p \in Peers |-> "OK"]
    /\ peer_i = [p \in Peers |-> 0]
    /\ peer_coll = [p \in Peers |-> "OK"]
    /\ peer_array = [p \in Peers |-> FALSE]
    /\ peer_eps = [p \in Peers |-> {}]
    /\ peer_rkeys = [p \in Peers |-> {}]
    /\ peer_ret = [p \in Peers |-> "none"]
    /\ peer_fault = [p \in Peers |-> {}]
    /\ rte_posted = [p \in Peers |-> <<>>]
    /\ rte_read = [p \in Peers |-> [i \in Peers |-> 0]]
    /\ Idle

SetupNext ==
    \E p \in Peers :
        \/ SetupStart(p)
        \/ Connect(p)
        \/ Connected(p)
        \/ ExchangeStatus(p)

SetupSpec == SetupInit /\ [][SetupNext]_vars

\* Every peer is a process of its own and keeps running.
SetupStep(p) ==
    SetupStart(p) \/ Connect(p) \/ Connected(p) \/ ExchangeStatus(p)

SetupFairSpec ==
    SetupInit /\ [][SetupNext]_vars /\ \A p \in Peers : WF_vars(SetupStep(p))

(***************************************************************************)
(* The multi-thread driver (src/src/tools/perf/libperf.c).                 *)
(*                                                                         *)
(* ucx_perf_thread_spawn sets the API up once, hands every thread a copy   *)
(* of the perf header shifted by thread_id * message_size and joins the    *)
(* per-thread statuses.  Buffer addresses are offsets from the start of    *)
(* the region that alloc_mem registered.                                   *)
(***************************************************************************)
MaxThreadCount == 2

\* 2^64 - 1 as far as the tool can count: every iteration count of the
\* model is far below it.
UINT64_MAX == 2147483647

\* buffer_size of uct_perf_test_alloc_mem and ucp_perf_test_alloc_mem.
buffer_size(params) ==
    IF /\ params.api = "UCT" => params.data_layout = "ZCOPY"
       /\ params.iov_stride # 0
    THEN Len(params.msg_size_list) * params.iov_stride
    ELSE ucx_perf_get_message_size(params)

\* The length of the region alloc_mem registers for each direction.
RegionLength(params) == buffer_size(params) * params.thread_count

\* The bytes a test touches in a buffer that starts at base: the entries of
\* msg_size_list, iov_stride apart when alloc_mem sized the buffer by the
\* stride, one after the other otherwise.
BufferBytes(params, base) ==
    IF /\ params.api = "UCT" => params.data_layout = "ZCOPY"
       /\ params.iov_stride # 0
    THEN UNION {{base + (it - 1) * params.iov_stride + b :
                     b \in 0 .. (params.msg_size_list[it] - 1)} :
                it \in 1 .. Len(params.msg_size_list)}
    ELSE {base + b : b \in 0 .. (ucx_perf_get_message_size(params) - 1)}

\* ucx_perf_test_reset, the fields the driver goes on to change.
ucx_perf_test_reset(perf, params) ==
    [perf EXCEPT !.max_iter = IF params.max_iter = 0 THEN UINT64_MAX
                              ELSE params.max_iter,
                 !.report_interval = params.report_interval,
                 !.iters = 0,
                 !.offset = 0]

Min(a, b) == IF a < b THEN a ELSE b

\* ucx_perf_set_warmup; report_interval -1 is the largest ucs_time_t.
ucx_perf_set_warmup(perf, params) ==
    [perf EXCEPT !.max_iter = Min(params.warmup_iter, params.max_iter \div 10),
                 !.report_interval = UINT64_MAX]

\* The loop of ucx_perf_thread_spawn over statuses[ti .. nti-1].
RECURSIVE JoinStatuses(_, _, _, _)
JoinStatuses(statuses, ti, nti, st) ==
    IF ti >= nti THEN st
    ELSE JoinStatuses(statuses, ti + 1, nti,
                      IF statuses[ti] # "OK" THEN statuses[ti] ELSE st)

Tids == IF drv_tctx = <<>> THEN {} ELSE DOMAIN drv_tctx

\* ucx_perf_thread_spawn up to the parallel region: the setup fails on
\* parameters its validator rejects and may fail for want of memory.
DriverSetup ==
    /\ drv_pc = "spawn"
    /\ LET params == drv_params
           message_size == ucx_perf_get_message_size(params)
           nti == params.thread_count
           perf == ucx_perf_test_reset(
                       [send_buffer |-> 0, recv_buffer |-> 0, offset |-> 0,
                        max_iter |-> 0, report_interval |-> 0,
                        iters |-> 0], params)
           checked == ucx_perf_test_check_params(params)
       IN  \E s \in IF checked # "OK" THEN {checked} ELSE {"OK", "NO_MEMORY"} :
               IF s # "OK"
               THEN /\ drv_status' = s
                    /\ drv_pc' = "returned"
                    /\ UNCHANGED <<drv_tctx, drv_statuses>>
               ELSE /\ drv_tctx' =
                           [ti \in 0 .. (nti - 1) |->
                               [perf |-> [perf EXCEPT
                                    !.send_buffer = @ + ti * message_size,
                                    !.recv_buffer = @ + ti * message_size,
                                    !.offset = ti * message_size],
                                pc |-> "start"]]
                    /\ drv_statuses' = [ti \in 0 .. (nti - 1) |-> "OK"]
                    /\ drv_pc' = "parallel"
                    /\ UNCHANGED drv_status
    /\ UNCHANGED <<drv_params, dframe>>

DriverFrame ==
    UNCHANGED <<drv_params, drv_pc, drv_status, dframe>>

\* ucx_perf_thread_run_test: the thread clamps its header for the warmup,
\* or goes straight to the run when no warmup is asked for.
ThreadSetWarmup(tid) ==
    /\ drv_pc = "parallel"
    /\ drv_tctx[tid].pc = "start"
    /\ drv_tctx' =
           IF drv_params.warmup_iter > 0
           THEN [drv_tctx EXCEPT
                    ![tid].perf = ucx_perf_set_warmup(@, drv_params),
                    ![tid].pc = "warmup"]
           ELSE [drv_tctx EXCEPT ![tid].pc = "ready"]
    /\ UNCHANGED drv_statuses
    /\ DriverFrame

\* A run that ends with status s on the header perf: a run that succeeds
\* has counted current.iters up to the iteration bound, unless the bound
\* is UINT64_MAX and the run ended on its time limit.
RunOn(perf, s) ==
    IF s = "OK" /\ perf.max_iter # UINT64_MAX /\ perf.iters < perf.max_iter
    THEN [perf EXCEPT !.iters = perf.max_iter]
    ELSE perf

\* The warmup run of the thread ends with status s.
ThreadWarmup(tid, s) ==
    /\ drv_pc = "parallel"
    /\ drv_tctx[tid].pc = "warmup"
    /\ drv_statuses' = [drv_statuses EXCEPT ![tid] = s]
    /\ drv_tctx' = [drv_tctx EXCEPT ![tid].perf = RunOn(@, s),
                                    ![tid].pc = "warmup_barrier"]
    /\ DriverFrame

\* Past the barrier the thread reads every slot; the master thread resets
\* its header.
ThreadAfterWarmup(tid) ==
    /\ drv_pc = "parallel"
    /\ drv_tctx[tid].pc = "warmup_barrier"
    /\ \A u \in Tids : drv_tctx[u].pc \in {"warmup_barrier", "ready", "out"}
    /\ drv_tctx' =
           IF \E i \in Tids : drv_statuses[i] # "OK"
           THEN [drv_tctx EXCEPT ![tid].pc = "out"]
           ELSE IF tid = 0
           THEN [drv_tctx EXCEPT
                    ![tid].perf = ucx_perf_test_reset(@, drv_params),
                    ![tid].pc = "ready"]
           ELSE [drv_tctx EXCEPT ![tid].pc = "ready"]
    /\ UNCHANGED drv_statuses
    /\ DriverFrame

\* Past the barrier of the threads, the run of the thread ends with status s.
ThreadRun(tid, s) ==
    /\ drv_pc = "parallel"
    /\ drv_tctx[tid].pc = "ready"
    /\ \A u \in Tids : drv_tctx[u].pc \in {"ready", "run_barrier"}
    /\ drv_statuses' = [drv_statuses EXCEPT ![tid] = s]
    /\ drv_tctx' = [drv_tctx EXCEPT ![tid].perf = RunOn(@, s),
                                    ![tid].pc = "run_barrier"]
    /\ DriverFrame

\* Past the last barrier the thread reads every slot and returns.
ThreadAfterRun(tid) ==
    /\ drv_pc = "parallel"
    /\ drv_tctx[tid].pc = "run_barrier"
    /\ \A u \in Tids : drv_tctx[u].pc \in {"run_barrier", "out"}
    /\ drv_tctx' = [drv_tctx EXCEPT ![tid].pc = "out"]
    /\ UNCHANGED drv_statuses
    /\ DriverFrame

\* The end of the parallel region: ucx_perf_thread_spawn joins the slots.
DriverJoin ==
    /\ drv_pc = "parallel"
    /\ \A u \in Tids : drv_tctx[u].pc = "out"
    /\ drv_status' = JoinStatuses(drv_statuses, 0, drv_params.thread_count,
                                  "OK")
    /\ drv_pc' = "returned"
    /\ UNCHANGED <<drv_params, drv_tctx, drv_statuses, dframe>>

\* The runs the driver is started on.
DriverParams ==
    [api : {"UCT", "UCP"},
     data_layout : {"SHORT", "ZCOPY"},
     thread_count : 1 .. MaxThreadCount,
     msg_size_list : {<<4>>, <<8>>, <<4, 4>>, <<4, 8>>, <<8, 4>>},
     iov_stride : {0, 4, 8},
     max_outstanding : {1},
     warmup_iter : {0, 3},
     max_iter : {0, 20, 100},
     report_interval : {1}]

RunStatuses == {"OK", "NO_MEMORY", "IO_ERROR"}

\* ucx_perf_run has handed a run of thread mode other than SINGLE to the
\* driver.
DriverInit ==
    /\ thread_mode = "SINGLE"
    /\ num_tls = 0
    /\ iface_wakeups = [i \in 0 .. (num_tls - 1) |-> FALSE]
    /\ CreatedState
    /\ NoAtomics
    /\ perf_params = <<>>
    /\ perf_attr = <<>>
    /\ perf_status = "none"
    /\ perf_features = "none"
    /\ NoPeers
    /\ Later
    /\ NoAmTest
    /\ NoCreate
    /\ NoUctSetup
    /\ drv_params \in DriverParams
    /\ drv_pc = "spawn"
    /\ drv_tctx = <<>>
    /\ drv_statuses = <<>>
    /\ drv_status = "none"

DriverNext ==
    \/ DriverSetup
    \/ \E tid \in Tids :
           \/ ThreadSetWarmup(tid)
           \/ \E s \in RunStatuses : ThreadWarmup(tid, s)
           \/ ThreadAfterWarmup(tid)
           \/ \E s \in RunStatuses : ThreadRun(tid, s)
           \/ ThreadAfterRun(tid)
    \/ DriverJoin

DriverSpec == DriverInit /\ [][DriverNext]_vars

(***************************************************************************)
(* The many-to-one active-message test                                     *)
(* (src/test/gtest/uct/test_many2one_am.cc).                               *)
(*                                                                         *)
(* The body of am_bcopy and the handler are translated from the test.  The *)
(* transport under them is not part of the sources: it is modelled from    *)
(* the specification as one send window per sender, in-order delivery per  *)
(* endpoint and a pool of receive descriptors of which the transport       *)
(* reuses only the free ones.  A payload is the seed of its pattern, -1    *)
(* stands for bytes that are no pattern.                                   *)
(***************************************************************************)
NumSenders == 2
NumSends == 3
Senders == 0 .. (NumSenders - 1)
RxDescs == 1 .. NumSends

\* The sends a sender may have in flight before uct_ep_am_bcopy returns
\* NO_RESOURCE.
TxWindow == 1

MAGIC == "0xdeadbeef12345678"
MAX_BCOPY == 16384

\* mapped_buffer::pattern_check
pattern_check(data, length) == data # -1 /\ length = MAX_BCOPY

\* am_handler without the copy into the descriptor.
am_handler_NoCopy(desc, data, length, in_desc, keep) ==
    IF keep
    THEN [desc |-> [desc EXCEPT !.magic = MAGIC, !.length = length],
          status |-> "INPROGRESS", checked |-> TRUE]
    ELSE [desc |-> desc, status |-> "OK",
          checked |-> pattern_check(data, length)]

\* test_many2one_am::am_handler; keep is rand() % 4 == 0, in_desc is
\* data == my_desc + 1.  The result is the descriptor as the handler leaves
\* it, the status it returns and whether its pattern check passed.
am_handler(desc, data, length, in_desc, keep) ==
    IF keep
    THEN [desc |-> [desc EXCEPT !.magic = MAGIC, !.length = length,
                                !.data = IF in_desc THEN @ ELSE data],
          status |-> "INPROGRESS", checked |-> TRUE]
    ELSE [desc |-> desc, status |-> "OK",
          checked |-> pattern_check(data, length)]

\* The receiver's progress hands the oldest message of sender s to the
\* handler in the free descriptor d; the payload lies in the descriptor
\* (in_desc) or in a buffer of the transport.
Deliver(s, d, in_desc, keep) ==
    /\ am_registered
    /\ am_txq[s] # <<>>
    /\ am_rx[d].state = "free"
    /\ LET data == Head(am_txq[s])
           desc == [am_rx[d] EXCEPT !.data = IF in_desc THEN data ELSE @,
                                    !.got = IF keep THEN data ELSE @]
           h == am_handler(desc, data, MAX_BCOPY, in_desc, keep)
       IN  /\ am_rx' = [am_rx EXCEPT ![d] =
                           [h.desc EXCEPT !.state =
                               IF h.status = "INPROGRESS" THEN "held"
                               ELSE "free"]]
           /\ am_backlog' = IF keep THEN Append(am_backlog, d)
                            ELSE am_backlog
           /\ am_fail' = am_fail \cup
                             IF h.checked THEN {} ELSE {"handler pattern"}
           /\ am_seen' = Append(am_seen, data)
    /\ am_txq' = [am_txq EXCEPT ![s] = Tail(@)]
    /\ am_count' = am_count + 1

\* A progress call of the receiver: it delivers a message or finds none.
ReceiverProgress ==
    \/ \E s \in Senders, d \in RxDescs, in_desc \in BOOLEAN, keep \in BOOLEAN :
           Deliver(s, d, in_desc, keep)
    \/ UNCHANGED <<am_rx, am_backlog, am_fail, am_seen, am_txq, am_count>>

\* The head of the send loop: a sender is drawn and its buffer filled with
\* the pattern of seed i.
PickSender(s) ==
    /\ am_pc = "send"
    /\ am_sender' = s
    /\ am_buffers' = [am_buffers EXCEPT ![s] = am_i]
    /\ am_pc' = "bcopy"
    /\ UNCHANGED <<am_i, am_txq, am_rx, am_registered, am_count, am_backlog,
                   am_seen, am_refused, am_fail, mframe>>

\* uct_ep_am_bcopy: the buffer is packed and accepted, or the send is
\* refused with NO_RESOURCE for want of a free window.
AmBcopy ==
    /\ am_pc = "bcopy"
    /\ IF Len(am_txq[am_sender]) < TxWindow
       THEN /\ am_txq' = [am_txq EXCEPT
                             ![am_sender] = Append(@, am_buffers[am_sender])]
            /\ am_i' = am_i + 1
            /\ am_pc' = IF am_i + 1 < NumSends THEN "send" ELSE "wait"
            /\ UNCHANGED am_refused
       ELSE /\ am_refused' = TRUE
            /\ am_pc' = "progress"
            /\ UNCHANGED <<am_txq, am_i>>
    /\ UNCHANGED <<am_sender, am_buffers, am_rx, am_registered, am_count,
                   am_backlog, am_seen, am_fail, mframe>>

\* After NO_RESOURCE the test progresses the sender and the receiver and
\* sends again.
RetryProgress ==
    /\ am_pc = "progress"
    /\ ReceiverProgress
    /\ am_pc' = "bcopy"
    /\ UNCHANGED <<am_i, am_sender, am_buffers, am_registered, am_refused,
                   mframe>>

\* The loop that waits for m_am_count to reach num_sends.
WaitProgress ==
    /\ am_pc = "wait"
    /\ am_count < NumSends
    /\ ReceiverProgress
    /\ UNCHANGED <<am_pc, am_i, am_sender, am_buffers, am_registered,
                   am_refused, mframe>>

\* uct_iface_set_am_handler(NULL) once every send was counted.
Unregister ==
    /\ am_pc = "wait"
    /\ am_count >= NumSends
    /\ am_registered' = FALSE
    /\ am_pc' = "check_backlog"
    /\ UNCHANGED <<am_i, am_sender, am_buffers, am_txq, am_rx, am_count,
                   am_backlog, am_seen, am_refused, am_fail, mframe>>

\* check_backlog, one descriptor per step: it is checked and released.
CheckBacklog ==
    /\ am_pc = "check_backlog"
    /\ IF am_backlog = <<>>
       THEN /\ am_pc' = "done"
            /\ UNCHANGED <<am_backlog, am_rx, am_fail>>
       ELSE LET my_desc == am_backlog[Len(am_backlog)]
            IN  /\ am_backlog' = SubSeq(am_backlog, 1, Len(am_backlog) - 1)
                /\ am_fail' = am_fail
                     \cup (IF am_rx[my_desc].magic = MAGIC THEN {}
                           ELSE {"backlog magic"})
                     \cup (IF pattern_check(am_rx[my_desc].data,
                                            am_rx[my_desc].length)
                           THEN {} ELSE {"backlog pattern"})
                /\ am_rx' = [am_rx EXCEPT ![my_desc].state = "free",
                                          ![my_desc].got = -1]
                /\ UNCHANGED am_pc
    /\ UNCHANGED <<am_i, am_sender, am_buffers, am_txq, am_registered,
                   am_count, am_seen, am_refused, mframe>>

\* The test after its setup: the senders are connected, the handler is
\* registered, no buffer is filled and no descriptor was used.
AmTestInit ==
    /\ thread_mode = "SINGLE"
    /\ num_tls = 0
    /\ iface_wakeups = [i \in 0 .. (num_tls - 1) |-> FALSE]
    /\ CreatedState
    /\ NoAtomics
    /\ perf_params = <<>>
    /\ perf_attr = <<>>
    /\ perf_status = "none"
    /\ perf_features = "none"
    /\ NoPeers
    /\ Later
    /\ NoDriver
    /\ NoCreate
    /\ NoUctSetup
    /\ am_pc = "send"
    /\ am_i = 0
    /\ am_sender = 0
    /\ am_buffers = [s \in Senders |-> -1]
    /\ am_txq = [s \in Senders |-> <<>>]
    /\ am_rx = [d \in RxDescs |->
                   [state |-> "free", magic |-> "", length |-> 0,
                    data |-> -1, got |-> -1]]
    /\ am_registered = TRUE
    /\ am_count = 0
    /\ am_backlog = <<>>
    /\ am_seen = <<>>
    /\ am_refused = FALSE
    /\ am_fail = {}

AmTestNext ==
    \/ \E s \in Senders : PickSender(s)
    \/ AmBcopy
    \/ RetryProgress
    \/ WaitProgress
    \/ Unregister
    \/ CheckBacklog

AmTestSpec == AmTestInit /\ [][AmTestNext]_vars

(***************************************************************************)
(* ucp_worker_create opening the interfaces of the context, and            *)
(* ucp_worker_destroy (src/src/ucp/core/ucp_worker.c).                     *)
(*                                                                         *)
(* The worker's arrays are zeroed and wakeup_efd is -1 while the loop      *)
(* runs; a resource stands for its interface and for its wakeup handle.    *)
(***************************************************************************)
\* The most messages that arrive in the life of a worker.
MaxMsgs == 2

\* The features of a context.
Features == {"TAG", "RMA"}

\* The table ucp_am_handlers: per handler id its feature mask and whether
\* its callback is a sync one.  The wireup handler is enabled by every
\* feature, slot UNUSED has no handler.
ucp_am_handlers ==
    [WIREUP |-> [features |-> Features, sync |-> FALSE],
     EAGER  |-> [features |-> {"TAG"},  sync |-> TRUE],
     REPLY  |-> [features |-> {"RMA"},  sync |-> FALSE],
     UNUSED |-> [features |-> {},       sync |-> FALSE]]

AmIds == DOMAIN ucp_am_handlers

\* The destinations a worker connects to.
EpUuids == {"u1", "u2"}

Event(op, arg) == [op |-> op, arg |-> arg]

\* ucp_worker_close_ifaces that leaves the wakeup handles open.
ucp_worker_close_ifaces_NoWakeup(ifaces, wakeups, open_ifaces, open_wakeups) ==
    [ifaces |-> open_ifaces \ {r \in DOMAIN ifaces : ifaces[r]},
     wakeups |-> open_wakeups]

\* ucp_worker_close_ifaces: what stays open of the interfaces and of the
\* wakeup handles.
ucp_worker_close_ifaces(ifaces, wakeups, open_ifaces, open_wakeups) ==
    [ifaces |-> open_ifaces \ {r \in DOMAIN ifaces : ifaces[r]},
     wakeups |-> open_wakeups \
                     {r \in DOMAIN ifaces : ifaces[r] /\ wakeups[r]}]

\* The closes ucp_worker_close_ifaces makes from resource r on, in order.
RECURSIVE CloseEvents(_, _, _)
CloseEvents(ifaces, wakeups, r) ==
    IF r \notin DOMAIN ifaces THEN <<>>
    ELSE (IF ~ifaces[r] THEN <<>>
          ELSE (IF wakeups[r] THEN <<Event("uct_wakeup_close", r)>>
                ELSE <<>>) \o <<Event("uct_iface_close", r)>>)
         \o CloseEvents(ifaces, wakeups, r + 1)

\* ucp_worker_set_am_handlers that registers a sync callback on any
\* interface.
ucp_worker_set_am_handlers_AnySync(worker_features, caps) ==
    [am_id \in AmIds |->
        IF worker_features \cap ucp_am_handlers[am_id].features = {}
        THEN "none" ELSE "cb"]

\* ucp_worker_set_am_handlers: what it registers on an interface of flags
\* caps, every registration succeeding.
ucp_worker_set_am_handlers(worker_features, caps) ==
    [am_id \in AmIds |->
        IF worker_features \cap ucp_am_handlers[am_id].features = {}
        THEN "none"
        ELSE IF ucp_am_handlers[am_id].sync /\ "AM_CB_SYNC" \notin caps
        THEN "none"
        ELSE "cb"]

NoHandlers == [am_id \in AmIds |-> "none"]

\* ucp_worker_remove_am_handlers that leaves the sync callbacks in place.
ucp_worker_remove_am_handlers_AsyncOnly(worker_features, handlers) ==
    [tl_id \in DOMAIN handlers |->
        [am_id \in AmIds |->
            IF /\ worker_features \cap ucp_am_handlers[am_id].features # {}
               /\ ~ucp_am_handlers[am_id].sync
            THEN "stub"
            ELSE handlers[tl_id][am_id]]]

\* ucp_worker_remove_am_handlers: the handlers of every interface after it.
ucp_worker_remove_am_handlers(worker_features, handlers) ==
    [tl_id \in DOMAIN handlers |->
        [am_id \in AmIds |->
            IF worker_features \cap ucp_am_handlers[am_id].features # {}
            THEN "stub"
            ELSE handlers[tl_id][am_id]]]

\* The calls of ucp_worker_add_iface that can fail on an interface of
\* flags caps, in the order they are made.
AddIfaceCalls(caps) ==
    {"uct_iface_config_read", "uct_iface_open", "uct_iface_query"}
        \cup (IF "AM" \in caps
              THEN {"ucp_worker_set_am_handlers", "uct_iface_set_am_tracer"}
              ELSE {})
        \cup (IF "WAKEUP" \in caps THEN {"uct_wakeup_open"} ELSE {})

\* The interface ucp_worker_add_iface leaves open when call fails: the
\* failures before the query has succeeded leave by `out`, the later ones
\* by out_close_iface.
LeftOpen(tl_id, call) ==
    IF call = "uct_iface_query" THEN {tl_id} ELSE {}

\* The close ucp_worker_add_iface makes of its own interface when call
\* fails.
OwnClose(tl_id, call) ==
    IF call \in {"ucp_worker_set_am_handlers", "uct_iface_set_am_tracer",
                 "uct_wakeup_open"}
    THEN <<Event("uct_iface_close", tl_id)>>
    ELSE <<>>

\* What ucp_worker_create releases after err_close_ifaces has closed the
\* interfaces.
CreateUnwind ==
    <<Event("ucs_mpool_cleanup", -1), Event("uct_worker_destroy", -1),
      Event("ucs_async_context_cleanup", -1),
      Event("ucp_worker_wakeup_context_cleanup", -1),
      Event("UCS_STATS_NODE_FREE", -1), Event("free iface_attrs", -1),
      Event("free ifaces", -1), Event("free worker", -1)>>

\* One turn of the loop of ucp_worker_create: ucp_worker_add_iface opens
\* the interface of tl_id, or call fails with status s and creation closes
\* its interfaces and returns.
AddIface(call, s) ==
    /\ wc_pc = "open"
    /\ wc_tl_id < num_tls
    /\ call \in AddIfaceCalls(wc_caps[wc_tl_id]) \cup {"none"}
    /\ IF call = "none"
       THEN /\ wc_iface_wakeups' = [wc_iface_wakeups EXCEPT
                                       ![wc_tl_id] = "WAKEUP" \in wc_caps[wc_tl_id]]
            /\ wc_ifaces' = [wc_ifaces EXCEPT ![wc_tl_id] = TRUE]
            /\ wc_open_ifaces' = wc_open_ifaces \cup {wc_tl_id}
            /\ wc_open_wakeups' =
                   wc_open_wakeups \cup
                       IF "WAKEUP" \in wc_caps[wc_tl_id] THEN {wc_tl_id}
                       ELSE {}
            /\ wc_handlers' =
                   [wc_handlers EXCEPT ![wc_tl_id] =
                       IF "AM" \in wc_caps[wc_tl_id]
                       THEN ucp_worker_set_am_handlers(wc_features,
                                                       wc_caps[wc_tl_id])
                       ELSE NoHandlers]
            /\ wc_tl_id' = wc_tl_id + 1
            /\ UNCHANGED <<wc_pc, wc_status, wc_fault, wc_log>>
       ELSE LET closed == ucp_worker_close_ifaces(
                              wc_ifaces, wc_iface_wakeups,
                              wc_open_ifaces \cup LeftOpen(wc_tl_id, call),
                              wc_open_wakeups)
            IN  /\ wc_open_ifaces' = closed.ifaces
                /\ wc_open_wakeups' = closed.wakeups
                /\ wc_log' = wc_log \o OwnClose(wc_tl_id, call)
                                \o CloseEvents(wc_ifaces, wc_iface_wakeups, 0)
                                \o CreateUnwind
                /\ wc_status' = s
                /\ wc_fault' = [tl |-> wc_tl_id, call |-> call]
                /\ wc_pc' = "returned"
                /\ UNCHANGED <<wc_tl_id, wc_ifaces, wc_iface_wakeups,
                               wc_handlers>>
    /\ UNCHANGED <<wc_caps, wc_worker_p, wc_features, wc_eps, wc_rx, kframe>>

\* Every interface is open: the worker is handed out.
CreateDone ==
    /\ wc_pc = "open"
    /\ wc_tl_id = num_tls
    /\ wc_worker_p' = TRUE
    /\ wc_status' = "OK"
    /\ wc_pc' = "returned"
    /\ UNCHANGED <<wc_tl_id, wc_caps, wc_ifaces, wc_iface_wakeups,
                   wc_open_ifaces, wc_open_wakeups, wc_fault, wc_features,
                   wc_handlers, wc_eps, wc_log, wc_rx, kframe>>

\* The worker is in use, or ucp_worker_destroy is at one of its steps.
WorkerLive == wc_pc = "returned" /\ wc_worker_p

\* The application connects the worker to destination uuid.
EpCreate(uuid) ==
    /\ WorkerLive
    /\ uuid \notin wc_eps
    /\ wc_eps' = wc_eps \cup {uuid}
    /\ UNCHANGED <<wc_pc, wc_tl_id, wc_caps, wc_ifaces, wc_iface_wakeups,
                   wc_open_ifaces, wc_open_wakeups, wc_status, wc_worker_p,
                   wc_fault, wc_features, wc_handlers, wc_log, wc_rx,
                   kframe>>

\* The interface of tl_id, still open, dispatches a message of id am_id:
\* the callback of the worker takes it, or ucp_stub_am_handler drops it
\* and returns OK.
AmArrive(tl_id, am_id) ==
    /\ WorkerLive \/ wc_pc \in {"destroy_eps", "close_ifaces"}
    /\ tl_id \in wc_open_ifaces
    /\ wc_handlers[tl_id][am_id] # "none"
    /\ wc_rx.taken + wc_rx.dropped < MaxMsgs
    /\ wc_rx' = IF wc_handlers[tl_id][am_id] = "cb"
                THEN [wc_rx EXCEPT !.taken = @ + 1,
                                   !.late = @ \/ wc_pc # "returned"]
                ELSE [wc_rx EXCEPT !.dropped = @ + 1]
    /\ UNCHANGED <<wc_pc, wc_tl_id, wc_caps, wc_ifaces, wc_iface_wakeups,
                   wc_open_ifaces, wc_open_wakeups, wc_status, wc_worker_p,
                   wc_fault, wc_features, wc_handlers, wc_eps, wc_log,
                   kframe>>

\* ucp_worker_destroy, first step: ucp_worker_remove_am_handlers.
RemoveAmHandlers ==
    /\ WorkerLive
    /\ wc_handlers' = ucp_worker_remove_am_handlers(wc_features, wc_handlers)
    /\ wc_log' = Append(wc_log, Event("ucp_worker_remove_am_handlers", -1))
    /\ wc_pc' = "destroy_eps"
    /\ UNCHANGED <<wc_tl_id, wc_caps, wc_ifaces, wc_iface_wakeups,
                   wc_open_ifaces, wc_open_wakeups, wc_status, wc_worker_p,
                   wc_fault, wc_features, wc_eps, wc_rx, kframe>>

\* ucp_worker_destroy_eps: every endpoint of the hash is destroyed.
ucp_worker_destroy_eps ==
    /\ wc_pc = "destroy_eps"
    /\ wc_eps' = {}
    /\ wc_log' = Append(wc_log, Event("ucp_ep_destroy_internal", wc_eps))
    /\ wc_pc' = "close_ifaces"
    /\ UNCHANGED <<wc_tl_id, wc_caps, wc_ifaces, wc_iface_wakeups,
                   wc_open_ifaces, wc_open_wakeups, wc_status, wc_worker_p,
                   wc_fault, wc_features, wc_handlers, wc_rx, kframe>>

\* ucp_worker_close_ifaces, called by ucp_worker_destroy.
CloseIfaces ==
    /\ wc_pc = "close_ifaces"
    /\ LET closed == ucp_worker_close_ifaces(wc_ifaces, wc_iface_wakeups,
                                             wc_open_ifaces, wc_open_wakeups)
       IN  /\ wc_open_ifaces' = closed.ifaces
           /\ wc_open_wakeups' = closed.wakeups
    /\ wc_log' = wc_log \o CloseEvents(wc_ifaces, wc_iface_wakeups, 0)
    /\ wc_pc' = "cleanup"
    /\ UNCHANGED <<wc_tl_id, wc_caps, wc_ifaces, wc_iface_wakeups, wc_status,
                   wc_worker_p, wc_fault, wc_features, wc_handlers, wc_eps,
                   wc_rx, kframe>>

\* The rest of ucp_worker_destroy.
DestroyRest ==
    /\ wc_pc = "cleanup"
    /\ wc_log' = wc_log \o
           <<Event("ucs_mpool_cleanup", -1), Event("uct_worker_destroy", -1),
             Event("ucs_async_context_cleanup", -1),
             Event("ucp_worker_wakeup_context_cleanup", -1),
             Event("free iface_attrs", -1), Event("free ifaces", -1),
             Event("kh_destroy_inplace", -1),
             Event("UCS_STATS_NODE_FREE", -1), Event("free worker", -1)>>
    /\ wc_pc' = "destroyed"
    /\ UNCHANGED <<wc_tl_id, wc_caps, wc_ifaces, wc_iface_wakeups,
                   wc_open_ifaces, wc_open_wakeups, wc_status, wc_worker_p,
                   wc_fault, wc_features, wc_handlers, wc_eps, wc_rx, kframe>>

\* The flags an interface reports.
IfaceCaps ==
    SUBSET {"AM", "WAKEUP", "AM_CB_SYNC"} \ {{"WAKEUP", "AM_CB_SYNC"}}

\* ucp_worker_create has allocated the worker and is about to open the
\* interfaces of a context of up to MaxTls resources.
CreateInit ==
    /\ thread_mode \in {"SINGLE", "MULTI"}
    /\ num_tls \in 1 .. MaxTls
    /\ iface_wakeups = [i \in 0 .. (num_tls - 1) |-> FALSE]
    /\ CreatedState
    /\ NoAtomics
    /\ perf_params = <<>>
    /\ perf_attr = <<>>
    /\ perf_status = "none"
    /\ perf_features = "none"
    /\ NoPeers
    /\ Later
    /\ NoDriver
    /\ NoAmTest
    /\ NoUctSetup
    /\ wc_pc = "open"
    /\ wc_tl_id = 0
    /\ wc_caps \in [0 .. (num_tls - 1) -> IfaceCaps]
    /\ wc_ifaces = [r \in 0 .. (num_tls - 1) |-> FALSE]
    /\ wc_iface_wakeups = [r \in 0 .. (num_tls - 1) |-> FALSE]
    /\ wc_open_ifaces = {}
    /\ wc_open_wakeups = {}
    /\ wc_status = "none"
    /\ wc_worker_p = FALSE
    /\ wc_fault = [tl |-> -1, call |-> "none"]
    /\ wc_features \in {{}, {"TAG"}, {"TAG", "RMA"}}
    /\ wc_handlers = [r \in 0 .. (num_tls - 1) |-> NoHandlers]
    /\ wc_eps = {}
    /\ wc_log = <<>>
    /\ wc_rx = [taken |-> 0, dropped |-> 0, late |-> FALSE]

CreateNext ==
    \/ \E call \in AddIfaceCalls({"AM", "WAKEUP"}) \cup {"none"},
          s \in {"NO_MEMORY", "IO_ERROR"} : AddIface(call, s)
    \/ CreateDone
    \/ \E uuid \in EpUuids : EpCreate(uuid)
    \/ \E tl_id \in 0 .. (num_tls - 1), am_id \in AmIds : AmArrive(tl_id, am_id)
    \/ RemoveAmHandlers
    \/ ucp_worker_destroy_eps
    \/ CloseIfaces
    \/ DestroyRest

CreateSpec == CreateInit /\ [][CreateNext]_vars

(***************************************************************************)
(* The transport-API endpoint setup and teardown of a group of peers       *)
(* (src/src/tools/perf/libperf.c).                                         *)
(*                                                                         *)
(* A run of bytes is a sequence of segments [tag, len]; what is read back  *)
(* at an offset is a sequence of pieces [tag, from, len], so that a field  *)
(* read at another offset than it was written at, or past the scratch      *)
(* buffer, differs from the field that was packed.                         *)
(***************************************************************************)
GroupSize == 3
Members == 0 .. (GroupSize - 1)

\* buffer_size of uct_perf_test_setup_endpoints
scratch_size == 2048

\* sizeof(ucx_perf_ep_info_t): four lengths and an address
SizeofInfo == 40

Segment(tag, len) == [tag |-> tag, len |-> len]
Piece(tag, from, len) == [tag |-> tag, from |-> from, len |-> len]

\* The field tag of len bytes, read back whole.
Whole(tag, len) == IF len = 0 THEN <<>> ELSE <<Piece(tag, 0, len)>>

\* The n bytes at offset off of segs; past its end the bytes are no field
\* of the record.
RECURSIVE Slice(_, _, _)
Slice(segs, off, n) ==
    IF n = 0 THEN <<>>
    ELSE IF segs = <<>> THEN <<Piece(<<"stale", -1, -1>>, 0, n)>>
    ELSE IF off >= Head(segs).len
    THEN Slice(Tail(segs), off - Head(segs).len, n)
    ELSE LET take == Min(n, Head(segs).len - off)
         IN  <<Piece(Head(segs).tag, off, take)>>
                 \o Slice(Tail(segs), 0, n - take)

RecordLength(segs) == SumList([k \in 1 .. Len(segs) |-> segs[k].len])

\* What the receiver reads at offset off of the scratch buffer it received
\* the record into: the buffer holds the first scratch_size bytes.
ReadScratch(segs, off, n) ==
    LET inside == IF off >= scratch_size THEN 0
                  ELSE Min(n, scratch_size - off)
    IN  Slice(segs, off, inside)
            \o (IF n > inside
                THEN <<Piece(<<"stale", -1, -1>>, 0, n - inside)>>
                ELSE <<>>)

\* info.rkey_size taken from the packed size whatever the flags.
RkeySize_AnyFlags(md_attr) == md_attr.rkey_packed_size

\* info.rkey_size of a peer whose memory domain reports md_attr.
RkeySize(md_attr) ==
    IF md_attr.flags \cap {"ALLOC", "REG"} # {}
    THEN md_attr.rkey_packed_size
    ELSE 0

\* The info header peer p fills in.
UctInfo(p) ==
    [rkey_size |-> RkeySize(uct_cfg.md[p]),
     dev_addr_len |-> uct_cfg.dev_addr_len,
     iface_addr_len |-> uct_cfg.iface_addr_len,
     ep_addr_len |-> uct_cfg.ep_addr_len,
     recv_buffer |-> p]

PayloadLength(info) ==
    info.rkey_size + info.dev_addr_len + info.iface_addr_len
        + info.ep_addr_len

\* The ucs_assert_always on the layout of the send buffer.
SizeAssertion(info) == PayloadLength(info) <= scratch_size

\* The last peer the loop over the group creates an endpoint for.
LastOther(p) == CHOOSE i \in Members \ {p} : \A j \in Members \ {p} : j <= i

\* The buffer peer p posts after its header: the packed key, the device
\* address, the interface address if the interface connects to interfaces,
\* and at ep_addr the address of the endpoint uct_ep_get_address wrote
\* last.
UctPayload(p, info) ==
    <<Segment(<<"rkey", p, p>>, info.rkey_size),
      Segment(<<"dev", p, p>>, info.dev_addr_len),
      Segment(IF "CONNECT_TO_IFACE" \in uct_cfg.flags
              THEN <<"iface", p, p>> ELSE <<"no iface", p, p>>,
              info.iface_addr_len),
      Segment(IF "CONNECT_TO_EP" \in uct_cfg.flags /\ Members \ {p} # {}
              THEN <<"ep", p, LastOther(p)>> ELSE <<"no ep", p, p>>,
              info.ep_addr_len)>>

\* The record of vec[0] and vec[1].
UctRecord(p) ==
    [info |-> UctInfo(p),
     bytes |-> <<Segment(<<"info", p, p>>, SizeofInfo)>>
                   \o UctPayload(p, UctInfo(p))]

\* What the receive loop derives from a record in the scratch buffer.
UctDecode(record) ==
    LET remote_info == record.info
        rkey_buffer == SizeofInfo
        dev_addr == rkey_buffer + remote_info.rkey_size
        iface_addr == dev_addr + remote_info.dev_addr_len
        ep_addr == iface_addr + remote_info.iface_addr_len
    IN  [recv_buffer |-> remote_info.recv_buffer,
         rkey_size |-> remote_info.rkey_size,
         rkey |-> ReadScratch(record.bytes, rkey_buffer,
                              remote_info.rkey_size),
         dev |-> ReadScratch(record.bytes, dev_addr,
                             remote_info.dev_addr_len),
         iface |-> ReadScratch(record.bytes, iface_addr,
                               remote_info.iface_addr_len),
         ep |-> ReadScratch(record.bytes, ep_addr,
                            remote_info.ep_addr_len)]

\* An entry of the zeroed peer table.
ZeroPeer ==
    [ep |-> [state |-> "NULL", to |-> <<>>],
     rkey |-> [type |-> "NULL", rkey |-> "zero"],
     remote_addr |-> -1]

\* The calls a loop over the peer table makes from entry i on: the key of
\* an entry of rel is released, then the endpoint of an entry of des is
\* destroyed.
RECURSIVE PeerEvents(_, _, _)
PeerEvents(rel, des, i) ==
    IF i >= GroupSize THEN <<>>
    ELSE (IF i \in rel THEN <<[op |-> "uct_rkey_release", arg |-> i]>>
          ELSE <<>>)
         \o (IF i \in des THEN <<[op |-> "uct_ep_destroy", arg |-> i]>>
             ELSE <<>>)
         \o PeerEvents(rel, des, i + 1)

\* The releases and destroys a peer has made so far plus those of the keys
\* of rel and of the endpoints of des, after the calls of before and
\* followed by the freeing of the table; releasing an entry whose key was
\* never unpacked is recorded in bad.
Released(hist, table, rel, des, before) ==
    [hist EXCEPT
        !.released = [i \in Members |-> @[i] + IF i \in rel THEN 1 ELSE 0],
        !.destroyed = [i \in Members |-> @[i] + IF i \in des THEN 1 ELSE 0],
        !.bad = @ \cup {i \in rel : table[i].rkey.rkey # "key"},
        !.log = @ \o before \o PeerEvents(rel, des, 0)
                  \o <<[op |-> "free", arg |-> -1]>>]

\* The endpoints of made and the keys of unpacked are added to what a peer
\* has created and unpacked.
Acquired(hist, made, unpacked) ==
    [hist EXCEPT !.created = @ \cup made, !.unpacked = @ \cup unpacked]

\* The label err_destroy_eps without the destroying of the endpoints.
ErrDestroyEps_KeysOnly(hist, table) ==
    Released(hist, table,
             {i \in Members : table[i].rkey.type # "NULL"}, {}, <<>>)

\* The label err_destroy_eps.
ErrDestroyEps(hist, table) ==
    Released(hist, table,
             {i \in Members : table[i].rkey.type # "NULL"},
             {i \in Members : table[i].ep.state # "NULL"}, <<>>)

\* The next index at or after i the loops do not skip.
UctNext(p, i) == IF i = p THEN i + 1 ELSE i

\* uct_perf_test_setup_endpoints up to the exchange of the records: the
\* header is filled in and the buffer laid out; a call may fail.
UctStart(p, call) ==
    /\ uct_pc[p] = "start"
    /\ LET info == UctInfo(p)
           table == [i \in Members |->
                        IF "CONNECT_TO_EP" \in uct_cfg.flags /\ i # p
                        THEN [ZeroPeer EXCEPT !.ep.state = "unconnected"]
                        ELSE ZeroPeer]
       IN  IF ~SizeAssertion(info)
           THEN /\ call = "none"
                /\ uct_pc' = [uct_pc EXCEPT ![p] = "aborted"]
                /\ UNCHANGED <<uct_peers, uct_posted, uct_status, uct_hist>>
           ELSE CASE call = "none" ->
                       /\ uct_peers' = [uct_peers EXCEPT ![p] = table]
                       /\ uct_posted' = [uct_posted EXCEPT ![p] = UctRecord(p)]
                       /\ uct_pc' = [uct_pc EXCEPT ![p] = "connect"]
                       /\ uct_hist' =
                              [uct_hist EXCEPT ![p] =
                                  Acquired(@, {i \in Members :
                                                  table[i].ep.state # "NULL"},
                                           {})]
                       /\ UNCHANGED uct_status
                  [] call = "calloc" ->
                       /\ uct_status' = [uct_status EXCEPT ![p] = "OK"]
                       /\ uct_pc' = [uct_pc EXCEPT ![p] = "failed"]
                       /\ uct_hist' = [uct_hist EXCEPT ![p].fault = call]
                       /\ UNCHANGED <<uct_peers, uct_posted>>
                  [] call = "uct_ep_get_address" ->
                       /\ "CONNECT_TO_EP" \in uct_cfg.flags
                       /\ Members \ {p} # {}
                       /\ uct_hist' =
                              [uct_hist EXCEPT ![p] =
                                  ErrDestroyEps(
                                      Acquired([@ EXCEPT !.fault = call],
                                               {i \in Members :
                                                   table[i].ep.state # "NULL"},
                                               {}),
                                      table)]
                       /\ uct_status' = [uct_status EXCEPT ![p] = "IO_ERROR"]
                       /\ uct_pc' = [uct_pc EXCEPT ![p] = "failed"]
                       /\ UNCHANGED <<uct_peers, uct_posted>>
    /\ UNCHANGED <<uct_cfg, uct_i, uct_decoded, uframe>>

\* One turn of the receive loop: the record of peer i is received and
\* decoded, its key unpacked or the entry given the invalid key, and the
\* endpoint connected; a failure leaves by err_destroy_eps.
UctConnect(p, call) ==
    /\ uct_pc[p] = "connect"
    /\ UctNext(p, uct_i[p]) < GroupSize
    /\ LET i == UctNext(p, uct_i[p])
       IN  /\ uct_posted[i] # <<>>
           /\ LET remote == UctDecode(uct_posted[i])
                  unpacked ==
                      [uct_peers[p][i] EXCEPT
                          !.remote_addr = remote.recv_buffer,
                          !.rkey = IF remote.rkey_size > 0
                                   THEN IF call = "uct_rkey_unpack" THEN @
                                        ELSE [type |-> "md", rkey |-> "key"]
                                   ELSE [type |-> "NULL",
                                         rkey |-> "INVALID"]]
                  connected ==
                      [unpacked EXCEPT
                          !.ep = IF "CONNECT_TO_EP" \in uct_cfg.flags
                                 THEN [state |-> "connected",
                                       to |-> remote.ep]
                                 ELSE [state |-> "connected",
                                       to |-> remote.iface]]
                  supported ==
                      uct_cfg.flags \cap {"CONNECT_TO_EP",
                                          "CONNECT_TO_IFACE"} # {}
              IN  /\ call \in {"none", "uct_rkey_unpack", "connect"}
                  /\ call = "uct_rkey_unpack" => remote.rkey_size > 0
                  /\ uct_decoded' = [uct_decoded EXCEPT ![p][i] = remote]
                  /\ IF call = "none" /\ supported
                     THEN /\ uct_peers' = [uct_peers EXCEPT
                                              ![p][i] = connected]
                          /\ uct_i' = [uct_i EXCEPT ![p] = i + 1]
                          /\ uct_hist' =
                                 [uct_hist EXCEPT ![p] =
                                     Acquired(@, {i},
                                              IF remote.rkey_size > 0
                                              THEN {i} ELSE {})]
                          /\ UNCHANGED <<uct_pc, uct_status>>
                     ELSE /\ uct_hist' =
                                 [uct_hist EXCEPT ![p] =
                                     ErrDestroyEps(
                                         Acquired([@ EXCEPT !.fault =
                                                      IF call = "none"
                                                      THEN "mode" ELSE call],
                                                  {},
                                                  IF unpacked.rkey.rkey = "key"
                                                  THEN {i} ELSE {}),
                                         [uct_peers[p] EXCEPT
                                             ![i] = unpacked])]
                          /\ uct_peers' = [uct_peers EXCEPT ![p] = <<>>]
                          /\ uct_status' =
                                 [uct_status EXCEPT ![p] =
                                     IF call = "none" THEN "UNSUPPORTED"
                                     ELSE "IO_ERROR"]
                          /\ uct_pc' = [uct_pc EXCEPT ![p] = "failed"]
                          /\ UNCHANGED uct_i
    /\ UNCHANGED <<uct_cfg, uct_posted, uframe>>

\* The receive loop of the peer is through: it flushes and waits in the
\* barrier.
LoopDone(p) == uct_pc[p] = "connect" /\ UctNext(p, uct_i[p]) >= GroupSize

\* The barrier lets the peer go once every peer has entered it: setup
\* returns OK.
UctSetupDone(p) ==
    /\ LoopDone(p)
    /\ \A q \in Members : LoopDone(q) \/ uct_pc[q] \in {"ready", "cleaned"}
    /\ uct_pc' = [uct_pc EXCEPT ![p] = "ready"]
    /\ uct_status' = [uct_status EXCEPT ![p] = "OK"]
    /\ UNCHANGED <<uct_cfg, uct_i, uct_peers, uct_posted, uct_decoded,
                   uct_hist, uframe>>

\* uct_perf_test_cleanup_endpoints, whose barrier lets the peer go once
\* every peer is back from the setup: the keys other than the invalid key
\* are released, the endpoints destroyed, the table freed.
UctCleanup(p) ==
    /\ uct_pc[p] = "ready"
    /\ \A q \in Members : uct_pc[q] \in {"ready", "cleaned"}
    /\ uct_hist' =
           [uct_hist EXCEPT ![p] =
               Released(@, uct_peers[p],
                        {i \in Members \ {p} :
                            uct_peers[p][i].rkey.rkey # "INVALID"},
                        {i \in Members \ {p} :
                            uct_peers[p][i].ep.state # "NULL"},
                        <<[op |-> "barrier", arg |-> -1],
                          [op |-> "uct_iface_set_am_handler", arg |-> -1]>>)]
    /\ uct_peers' = [uct_peers EXCEPT ![p] = <<>>]
    /\ uct_pc' = [uct_pc EXCEPT ![p] = "cleaned"]
    /\ UNCHANGED <<uct_cfg, uct_i, uct_posted, uct_decoded, uct_status,
                   uframe>>

\* What the memory domain of a peer may report.
UctMdAttrs ==
    {[flags |-> {}, rkey_packed_size |-> 8],
     [flags |-> {"REG"}, rkey_packed_size |-> 0],
     [flags |-> {"REG"}, rkey_packed_size |-> 8],
     [flags |-> {"ALLOC"}, rkey_packed_size |-> 2000]}

\* The groups the setup is run on: one transport for all peers, the memory
\* domain of peer 0 and that of the other peers, which register memory or
\* do not; the longer interface address and the interface of both
\* connection modes only with one memory domain for all.
UctGroups ==
    {[flags |-> f, dev_addr_len |-> 8, iface_addr_len |-> 8,
      ep_addr_len |-> 8,
      md |-> [p \in Members |-> IF p = 0 THEN m0 ELSE m1]] :
        f \in {{}, {"CONNECT_TO_EP"}, {"CONNECT_TO_IFACE"}},
        m0 \in UctMdAttrs,
        m1 \in {m \in UctMdAttrs : m.rkey_packed_size = 8}}
      \cup
    {[flags |-> f, dev_addr_len |-> 8, iface_addr_len |-> 40,
      ep_addr_len |-> 8, md |-> [p \in Members |-> m]] :
        f \in {{"CONNECT_TO_EP", "CONNECT_TO_IFACE"}},
        m \in UctMdAttrs}

\* Every peer of the group enters uct_perf_test_setup_endpoints.
UctSetupInit ==
    /\ thread_mode = "SINGLE"
    /\ num_tls = 0
    /\ iface_wakeups = [i \in 0 .. (num_tls - 1) |-> FALSE]
    /\ CreatedState
    /\ NoAtomics
    /\ perf_params = <<>>
    /\ perf_attr = <<>>
    /\ perf_status = "none"
    /\ perf_features = "none"
    /\ NoPeers
    /\ Later
    /\ NoDriver
    /\ NoAmTest
    /\ NoCreate
    /\ uct_cfg \in UctGroups
    /\ uct_pc = [p \in Members |-> "start"]
    /\ uct_i = [p \in Members |-> 0]
    /\ uct_peers = [p \in Members |-> <<>>]
    /\ uct_posted = [p \in Members |-> <<>>]
    /\ uct_decoded = [p \in Members |-> [i \in Members |-> <<>>]]
    /\ uct_status = [p \in Members |-> "none"]
    /\ uct_hist = [p \in Members |->
                      [released |-> [i \in Members |-> 0],
                       destroyed |-> [i \in Members |-> 0],
                       bad |-> {}, created |-> {}, unpacked |-> {},
                       log |-> <<>>, fault |-> "none"]]

UctSetupNext ==
    \E p \in Members :
        \/ \E call \in {"none", "calloc", "uct_ep_get_address"} :
               UctStart(p, call)
        \/ \E call \in {"none", "uct_rkey_unpack", "connect"} :
               UctConnect(p, call)
        \/ UctSetupDone(p)
        \/ UctCleanup(p)

UctSetupSpec == UctSetupInit /\ [][UctSetupNext]_vars

(***************************************************************************)
(* The median of the timing ring and the latency of the result             *)
(* (src/src/tools/perf/libperf.c).                                         *)
(*                                                                         *)
(* An array is a function on 0 .. n-1.  A read or write outside the array  *)
(* stops the selection with oob set; the outer loop is given n + 1 turns   *)
(* and a selection that needs more is reported as not ended.               *)
(***************************************************************************)
\* The longest ring the selection is run on.
MaxRing == 5

\* The timestamps of a ring.
Ticks == 0 .. 4

\* ucs_time_from_sec(1.0), ticks per second, in the unit of Ticks.
sec_value == 1000

ELEM_SWAP(arr, a, b) == [arr EXCEPT ![a] = arr[b], ![b] = arr[a]]

\* do ll++; while (arr[low] > arr[ll])
RECURSIVE ScanUp(_, _, _)
ScanUp(arr, low, ll) ==
    IF (ll + 1) \notin DOMAIN arr THEN [at |-> ll + 1, oob |-> TRUE]
    ELSE IF arr[low] > arr[ll + 1] THEN ScanUp(arr, low, ll + 1)
    ELSE [at |-> ll + 1, oob |-> FALSE]

\* do hh--; while (arr[hh] > arr[low])
RECURSIVE ScanDown(_, _, _)
ScanDown(arr, low, hh) ==
    IF (hh - 1) \notin DOMAIN arr THEN [at |-> hh - 1, oob |-> TRUE]
    ELSE IF arr[hh - 1] > arr[low] THEN ScanDown(arr, low, hh - 1)
    ELSE [at |-> hh - 1, oob |-> FALSE]

\* The inner loop: nibble from each end towards the middle, swapping items
\* when stuck.
RECURSIVE Nibble(_, _, _, _)
Nibble(arr, low, ll, hh) ==
    LET up == ScanUp(arr, low, ll)
        down == ScanDown(arr, low, hh)
    IN  IF up.oob \/ down.oob
        THEN [arr |-> arr, ll |-> up.at, hh |-> down.at, oob |-> TRUE]
        ELSE IF down.at < up.at
        THEN [arr |-> arr, ll |-> up.at, hh |-> down.at, oob |-> FALSE]
        ELSE Nibble(ELEM_SWAP(arr, up.at, down.at), low, up.at, down.at)

\* The median of the low, middle and high items goes to position low, the
\* item that was there to position low + 1.
MedianOfThree(arr, low, high) ==
    LET middle == (low + high) \div 2
        a1 == IF arr[middle] > arr[high] THEN ELEM_SWAP(arr, middle, high)
              ELSE arr
        a2 == IF a1[low] > a1[high] THEN ELEM_SWAP(a1, low, high) ELSE a1
        a3 == IF a2[middle] > a2[low] THEN ELEM_SWAP(a2, middle, low) ELSE a2
    IN  ELEM_SWAP(a3, middle, low + 1)

\* The outer loop of the selection on the partition low .. high, with
\* turns turns left.
RECURSIVE SelectLoop(_, _, _, _, _)
SelectLoop(arr, low, high, median, turns) ==
    IF turns = 0
    THEN [value |-> -1, arr |-> arr, oob |-> FALSE, ended |-> FALSE]
    ELSE IF high <= low
    THEN [value |-> arr[median], arr |-> arr, oob |-> FALSE, ended |-> TRUE]
    ELSE IF high = low + 1
    THEN LET a == IF arr[low] > arr[high] THEN ELEM_SWAP(arr, low, high)
                  ELSE arr
         IN  [value |-> a[median], arr |-> a, oob |-> FALSE, ended |-> TRUE]
    ELSE LET n == Nibble(MedianOfThree(arr, low, high), low, low + 1, high)
         IN  IF n.oob
             THEN [value |-> -1, arr |-> n.arr, oob |-> TRUE, ended |-> TRUE]
             ELSE LET a == ELEM_SWAP(n.arr, low, n.hh)
                  IN  SelectLoop(a,
                                 IF n.hh <= median THEN n.ll ELSE low,
                                 IF n.hh >= median THEN n.hh - 1 ELSE high,
                                 median, turns - 1)

\* A selection that returns the middle slot of the array as it is.
find_median_quick_select_NoPartition(arr, n) ==
    [value |-> arr[(n - 1) \div 2], arr |-> arr, oob |-> FALSE,
     ended |-> TRUE]

\* __find_median_quick_select(arr, n).
find_median_quick_select(arr, n) ==
    SelectLoop(arr, 0, n - 1, (0 + (n - 1)) \div 2, n + 1)

\* ucx_perf_calc_result, the typical latency: the median over sec_value
\* and the latency factor, kept as a fraction.
ucx_perf_calc_result ==
    /\ qs_result = <<>>
    /\ qs_arr # <<>>
    /\ LET n == Cardinality(DOMAIN qs_arr)
           sel == find_median_quick_select(qs_arr, n)
           latency_factor == IF qs_type = "PINGPONG" THEN 2 ELSE 1
       IN  /\ qs_result' = sel @@
                           [input |-> qs_arr,
                            typical |-> [num |-> sel.value,
                                          den |-> sec_value * latency_factor]]
           /\ qs_arr' = sel.arr
    /\ UNCHANGED <<qs_type, qframe>>

\* A run has filled its timing ring; slots it never wrote are 0.
SelectInit ==
    /\ thread_mode = "SINGLE"
    /\ num_tls = 0
    /\ iface_wakeups = [i \in 0 .. (num_tls - 1) |-> FALSE]
    /\ CreatedState
    /\ NoAtomics
    /\ perf_params = <<>>
    /\ perf_attr = <<>>
    /\ perf_status = "none"
    /\ perf_features = "none"
    /\ NoPeers
    /\ NoDriver
    /\ NoAmTest
    /\ NoCreate
    /\ NoUctSetup
    /\ NoAlloc
    /\ NoRun
    /\ NoReply
    /\ \E n \in 1 .. MaxRing : qs_arr \in [0 .. (n - 1) -> Ticks]
    /\ qs_type \in {"PINGPONG", "STREAM_UNI"}
    /\ qs_result = <<>>

SelectNext == ucx_perf_calc_result

SelectSpec == SelectInit /\ [][SelectNext]_vars

(***************************************************************************)
(* The allocation of the perf buffers on both API paths                    *)
(* (src/src/tools/perf/libperf.c).                                         *)
(***************************************************************************)
\* The steps of uct_perf_test_alloc_mem that can fail, in order.
UctAllocCalls == <<"send_mem", "recv_mem", "iov">>

\* The steps of ucp_perf_test_alloc_mem that can fail, in order: an IOV
\* array is allocated only for a datatype that is IOV.
UcpAllocCalls(params) ==
    <<"send_memh", "recv_memh">>
        \o (IF params.send_datatype = "IOV" THEN <<"send_iov">> ELSE <<>>)
        \o (IF params.recv_datatype = "IOV" THEN <<"recv_iov">> ELSE <<>>)

\* The steps of calls before the step named call, all of them when no
\* step is.
RECURSIVE StepsBefore(_, _)
StepsBefore(calls, call) ==
    IF calls = <<>> \/ Head(calls) = call THEN <<>>
    ELSE <<Head(calls)>> \o StepsBefore(Tail(calls), call)

Acquire(steps) == [k \in 1 .. Len(steps) |-> [op |-> "alloc", what |-> steps[k]]]
Release(steps) == [k \in 1 .. Len(steps) |-> [op |-> "free", what |-> steps[k]]]

\* The buffers held after the calls of log.
RECURSIVE HeldAfter(_)
HeldAfter(log) ==
    IF log = <<>> THEN {}
    ELSE LET before == HeldAfter(SubSeq(log, 1, Len(log) - 1))
             last == log[Len(log)]
         IN  IF last.op = "alloc" THEN before \cup {last.what}
             ELSE before \ {last.what}

\* uct_perf_test_alloc_mem when the step call fails with status s: the
\* calls it makes and what it returns.  Both err_free_send exits free the
\* send buffer only.
uct_perf_test_alloc_mem(params, call, s) ==
    LET done == StepsBefore(UctAllocCalls, call)
    IN  [log |-> Acquire(done) \o
                 (IF call \in {"recv_mem", "iov"}
                  THEN Release(<<"send_mem">>) ELSE <<>>),
         status |-> IF call = "none" THEN "OK"
                    ELSE IF call = "iov" THEN "NO_MEMORY" ELSE s]

\* ucp_perf_test_alloc_mem when the step call fails: the labels
\* err_free_send_iov_buffers, err_free_buffers, err_free_send_buffer fall
\* through to err, which returns NO_MEMORY.
ucp_perf_test_alloc_mem(params, call) ==
    LET done == StepsBefore(UcpAllocCalls(params), call)
    IN  [log |-> Acquire(done) \o
                 (IF call = "recv_iov" THEN Release(<<"send_iov">>)
                  ELSE <<>>) \o
                 (IF call \in {"send_iov", "recv_iov"}
                  THEN Release(<<"recv_memh">>) ELSE <<>>) \o
                 (IF call \in {"recv_memh", "send_iov", "recv_iov"}
                  THEN Release(<<"send_memh">>) ELSE <<>>),
         status |-> IF call = "none" THEN "OK" ELSE "NO_MEMORY"]

\* The setup allocates the buffers; the step call, if any, fails.
AllocMem(call, s) ==
    /\ al_params # <<>>
    /\ al_status = "none"
    /\ \/ call = "none"
       \/ \E k \in 1 .. 4 :
             LET calls == IF al_params.api = "UCT" THEN UctAllocCalls
                          ELSE UcpAllocCalls(al_params)
             IN  k <= Len(calls) /\ calls[k] = call
    /\ LET out == IF al_params.api = "UCT"
                  THEN uct_perf_test_alloc_mem(al_params, call, s)
                  ELSE ucp_perf_test_alloc_mem(al_params, call)
       IN  /\ al_log' = out.log
           /\ al_held' = HeldAfter(out.log)
           /\ al_status' = out.status
    /\ al_fault' = call
    /\ UNCHANGED <<al_params, alframe>>

\* uct_perf_setup and ucp_perf_setup after alloc_mem has failed: they
\* leave by the label that comes before the freeing of the buffers.
SetupUnwind ==
    /\ al_status \notin {"none", "OK", "unwound", "freed"}
    /\ al_log' = Append(al_log, [op |-> "unwind", what |-> al_status])
    /\ al_status' = "unwound"
    /\ UNCHANGED <<al_params, al_held, al_fault, alframe>>

\* uct_perf_test_free_mem and ucp_perf_test_free_mem after a run.
FreeMem ==
    /\ al_status = "OK"
    /\ LET frees == IF al_params.api = "UCT"
                    THEN Release(<<"send_mem", "recv_mem", "iov">>)
                    ELSE Release(<<"recv_iov", "send_iov", "recv_memh",
                                   "send_memh">>)
       IN  /\ al_log' = al_log \o frees
           /\ al_held' = HeldAfter(al_log \o frees)
    /\ al_status' = "freed"
    /\ UNCHANGED <<al_params, al_fault, alframe>>

AllocParams ==
    [api : {"UCT", "UCP"},
     data_layout : {"SHORT", "ZCOPY"},
     send_datatype : {"CONTIG", "IOV"},
     recv_datatype : {"CONTIG", "IOV"},
     thread_count : 1 .. MaxThreadCount,
     msg_size_list : {<<8>>, <<4, 8>>},
     iov_stride : {0, 8}]

\* A setup is about to allocate its buffers.
AllocInit ==
    /\ thread_mode = "SINGLE"
    /\ num_tls = 0
    /\ iface_wakeups = [i \in 0 .. (num_tls - 1) |-> FALSE]
    /\ CreatedState
    /\ NoAtomics
    /\ perf_params = <<>>
    /\ perf_attr = <<>>
    /\ perf_status = "none"
    /\ perf_features = "none"
    /\ NoPeers
    /\ NoDriver
    /\ NoAmTest
    /\ NoCreate
    /\ NoUctSetup
    /\ NoSelect
    /\ NoRun
    /\ NoReply
    /\ al_params \in AllocParams
    /\ al_held = {}
    /\ al_log = <<>>
    /\ al_status = "none"
    /\ al_fault = "none"

AllocNext ==
    \/ \E call \in {"none", "send_mem", "recv_mem", "iov", "send_memh",
                    "recv_memh", "send_iov", "recv_iov"},
          s \in {"NO_MEMORY", "IO_ERROR"} : AllocMem(call, s)
    \/ SetupUnwind
    \/ FreeMem

AllocSpec == AllocInit /\ [][AllocNext]_vars

(***************************************************************************)
(* The peers of a group in ucx_perf_run, single thread mode, after a       *)
(* setup that succeeded on all of them (src/src/tools/perf/libperf.c).     *)
(*                                                                         *)
(* A rendezvous barrier lets a peer go once every peer has entered as many *)
(* barriers as it has.                                                     *)
(***************************************************************************)
\* The peer enters a barrier.
Enter(p) == rn_entered' = [rn_entered EXCEPT ![p] = @ + 1]

\* The warmup run of the peer ends with status s: a failure leaves by
\* out_cleanup, before the barrier.
RunWarmup(p, s) ==
    /\ rn_pc[p] = "warmup"
    /\ rn_status' = [rn_status EXCEPT ![p] = s]
    /\ rn_hist' = [rn_hist EXCEPT ![p].warmup = s]
    /\ IF s # "OK"
       THEN /\ rn_pc' = [rn_pc EXCEPT ![p] = "out_cleanup"]
            /\ UNCHANGED rn_entered
       ELSE /\ rn_pc' = [rn_pc EXCEPT ![p] = "warmup_barrier"]
            /\ Enter(p)
    /\ UNCHANGED <<rn_cfg, pframe>>

\* The measured run of the peer ends with status s and the peer enters the
\* barrier after it.
RunTest(p, s) ==
    /\ rn_pc[p] = "run"
    /\ rn_status' = [rn_status EXCEPT ![p] = s]
    /\ rn_pc' = [rn_pc EXCEPT ![p] = "run_barrier"]
    /\ Enter(p)
    /\ UNCHANGED <<rn_cfg, rn_hist, pframe>>

\* The cleanup of the API starts with the barrier of cleanup_endpoints.
RunCleanup(p) ==
    /\ rn_pc[p] = "out_cleanup"
    /\ rn_pc' = [rn_pc EXCEPT ![p] = "cleanup_barrier"]
    /\ Enter(p)
    /\ UNCHANGED <<rn_cfg, rn_status, rn_hist, pframe>>

\* The barrier the peer waits in lets it go: after the warmup the context
\* is reset; after the run the result is computed and reported if the run
\* succeeded; in the cleanup the transport API is through, the messaging
\* API enters the second barrier of ucp_perf_cleanup.
PassBarrier(p) ==
    /\ rn_pc[p] \in {"warmup_barrier", "run_barrier", "cleanup_barrier",
                     "cleanup_barrier2"}
    /\ \A q \in Peers : rn_entered[q] >= rn_entered[p]
    /\ CASE rn_pc[p] = "warmup_barrier" ->
                /\ rn_pc' = [rn_pc EXCEPT ![p] = "run"]
                /\ UNCHANGED <<rn_entered, rn_hist>>
         [] rn_pc[p] = "run_barrier" ->
                /\ rn_pc' = [rn_pc EXCEPT ![p] = "out_cleanup"]
                /\ rn_hist' =
                       IF rn_status[p] = "OK"
                       THEN [rn_hist EXCEPT
                                ![p].reports = Append(@, rn_entered[p])]
                       ELSE rn_hist
                /\ UNCHANGED rn_entered
         [] rn_pc[p] = "cleanup_barrier" ->
                IF rn_cfg.api = "UCP"
                THEN /\ rn_pc' = [rn_pc EXCEPT ![p] = "cleanup_barrier2"]
                     /\ Enter(p)
                     /\ UNCHANGED rn_hist
                ELSE /\ rn_pc' = [rn_pc EXCEPT ![p] = "returned"]
                     /\ UNCHANGED <<rn_entered, rn_hist>>
         [] rn_pc[p] = "cleanup_barrier2" ->
                /\ rn_pc' = [rn_pc EXCEPT ![p] = "returned"]
                /\ UNCHANGED <<rn_entered, rn_hist>>
    /\ UNCHANGED <<rn_cfg, rn_status, pframe>>

\* Every peer of the group has set its API up and is at the warmup, or at
\* the run when no warmup is configured.
RunInit ==
    /\ thread_mode = "SINGLE"
    /\ num_tls = 0
    /\ iface_wakeups = [i \in 0 .. (num_tls - 1) |-> FALSE]
    /\ CreatedState
    /\ NoAtomics
    /\ perf_params = <<>>
    /\ perf_attr = <<>>
    /\ perf_status = "none"
    /\ perf_features = "none"
    /\ NoPeers
    /\ NoDriver
    /\ NoAmTest
    /\ NoCreate
    /\ NoUctSetup
    /\ NoSelect
    /\ NoAlloc
    /\ NoReply
    /\ rn_cfg \in [api : {"UCT", "UCP"}, warmup : BOOLEAN]
    /\ rn_pc = [p \in Peers |-> IF rn_cfg.warmup THEN "warmup" ELSE "run"]
    /\ rn_entered = [p \in Peers |-> 0]
    /\ rn_status = [p \in Peers |-> "OK"]
    /\ rn_hist = [p \in Peers |-> [warmup |-> "none", reports |-> <<>>]]

RunNext ==
    \E p \in Peers :
        \/ \E s \in RunStatuses : RunWarmup(p, s)
        \/ \E s \in RunStatuses : RunTest(p, s)
        \/ RunCleanup(p)
        \/ PassBarrier(p)

RunSpec == RunInit /\ [][RunNext]_vars

(***************************************************************************)
(* The reply endpoints of a worker (src/src/ucp/core/ucp_worker.c).        *)
(*                                                                         *)
(* The main thread calls ucp_worker_get_reply_ep and progresses the stub   *)
(* endpoints; the async thread handles wireup requests, which create a     *)
(* stub endpoint for a peer the hash does not know, and runs only while    *)
(* the async context is not blocked.                                       *)
(***************************************************************************)
\* The UUIDs of the peers of the worker.
ReplyUuids == {"u1", "u2", "u3"}

\* ucs_list_del on the stub list.
ListDel(list, uuid) == SelectSeq(list, LAMBDA e : e # uuid)

\* ucp_worker_stub_ep_add: the stub list and the registrations of the
\* progress callback after it.
ucp_worker_stub_ep_add(stubs, progress, uuid) ==
    [stubs |-> <<uuid>> \o stubs, progress |-> progress + 1]

\* ucp_worker_stub_ep_remove that leaves the callback registered.
ucp_worker_stub_ep_remove_KeepCallback(stubs, progress, uuid) ==
    [stubs |-> ListDel(stubs, uuid), progress |-> progress]

\* ucp_worker_stub_ep_remove.
ucp_worker_stub_ep_remove(stubs, progress, uuid) ==
    [stubs |-> ListDel(stubs, uuid), progress |-> progress - 1]

\* ucp_ep_create_stub: the endpoint is entered in the hash and its stub
\* put on the stub list.
ucp_ep_create_stub(uuid) ==
    LET added == ucp_worker_stub_ep_add(gr_stubs, gr_progress, uuid)
    IN  /\ gr_hash' = [gr_hash EXCEPT ![uuid] = "stub"]
        /\ gr_stubs' = added.stubs
        /\ gr_progress' = added.progress

\* ucp_worker_get_reply_ep(dest_uuid) takes the async block.
GetReplyEp(uuid) ==
    /\ gr_pc = "idle"
    /\ gr_async' = gr_async + 1
    /\ gr_uuid' = uuid
    /\ gr_pc' = "find"
    /\ gr_hist' = [found |-> "none", created |-> 0, left |-> "none"]
    /\ UNCHANGED <<gr_hash, gr_stubs, gr_progress, gframe>>

\* ucp_worker_ep_find, and ucp_ep_create_stub when the hash has no
\* endpoint for the UUID; the creation may fail.
FindOrCreate(fail) ==
    /\ gr_pc = "find"
    /\ IF gr_hash[gr_uuid] # "none"
       THEN /\ ~fail
            /\ gr_hist' = [gr_hist EXCEPT !.found = gr_hash[gr_uuid]]
            /\ gr_pc' = "unblock"
            /\ UNCHANGED <<gr_hash, gr_stubs, gr_progress>>
       ELSE IF fail
       THEN /\ gr_pc' = "err"
            /\ UNCHANGED <<gr_hash, gr_stubs, gr_progress, gr_hist>>
       ELSE /\ ucp_ep_create_stub(gr_uuid)
            /\ gr_hist' = [gr_hist EXCEPT !.created = @ + 1]
            /\ gr_pc' = "unblock"
    /\ UNCHANGED <<gr_uuid, gr_async, gframe>>

\* The block is released and the endpoint returned, or, after a failed
\* creation, the block is released and ucs_fatal ends the process.
Leave ==
    /\ gr_pc \in {"unblock", "err"}
    /\ gr_async' = gr_async - 1
    /\ gr_pc' = IF gr_pc = "err" THEN "fatal" ELSE "idle"
    /\ gr_hist' = [gr_hist EXCEPT !.left = IF gr_pc = "err" THEN "fatal"
                                           ELSE gr_hash[gr_uuid]]
    /\ UNCHANGED <<gr_uuid, gr_hash, gr_stubs, gr_progress, gframe>>

\* The async thread handles a wireup request of a peer the hash does not
\* know: it creates a stub endpoint for it.
AsyncWireup(uuid) ==
    /\ gr_pc \notin {"none", "fatal"}
    /\ gr_async = 0
    /\ gr_hash[uuid] = "none"
    /\ ucp_ep_create_stub(uuid)
    /\ UNCHANGED <<gr_pc, gr_uuid, gr_async, gr_hist, gframe>>

\* ucp_worker_progress_stub_eps on the main thread: the wireup of a stub
\* is through and the stub is taken off the list.
StubEpRemove(uuid) ==
    /\ gr_pc = "idle"
    /\ \E k \in 1 .. Len(gr_stubs) : gr_stubs[k] = uuid
    /\ LET removed == ucp_worker_stub_ep_remove(gr_stubs, gr_progress, uuid)
       IN  /\ gr_stubs' = removed.stubs
           /\ gr_progress' = removed.progress
    /\ gr_hash' = [gr_hash EXCEPT ![uuid] = "ep"]
    /\ UNCHANGED <<gr_pc, gr_uuid, gr_async, gr_hist, gframe>>

\* A worker with no endpoint.
ReplyInit ==
    /\ thread_mode = "SINGLE"
    /\ num_tls = 0
    /\ iface_wakeups = [i \in 0 .. (num_tls - 1) |-> FALSE]
    /\ CreatedState
    /\ NoAtomics
    /\ perf_params = <<>>
    /\ perf_attr = <<>>
    /\ perf_status = "none"
    /\ perf_features = "none"
    /\ NoPeers
    /\ NoDriver
    /\ NoAmTest
    /\ NoCreate
    /\ NoUctSetup
    /\ NoSelect
    /\ NoAlloc
    /\ NoRun
    /\ gr_pc = "idle"
    /\ gr_uuid = "none"
    /\ gr_hash = [u \in ReplyUuids |-> "none"]
    /\ gr_stubs = <<>>
    /\ gr_async = 0
    /\ gr_progress = 0
    /\ gr_hist = [found |-> "none", created |-> 0, left |-> "none"]

ReplyNext ==
    \/ \E uuid \in ReplyUuids : GetReplyEp(uuid)
    \/ \E fail \in BOOLEAN : FindOrCreate(fail)
    \/ Leave
    \/ \E uuid \in ReplyUuids : AsyncWireup(uuid)
    \/ \E uuid \in ReplyUuids : StubEpRemove(uuid)

ReplySpec == ReplyInit /\ [][ReplyNext]_vars

(***************************************************************************)
(* Claims.                                                                 *)
(***************************************************************************)

\* C1: after signal() has returned, the next wait() returns without
\* blocking: a wait() called while a signalled byte is in the pipe and no
\* other call is under way always returns, with no interface event and no
\* further signal() needed.
C1_SignalThenWaitReturns ==
    \A t \in Threads :
        (/\ pc[t] = "wait_enter"
         /\ wakeup_pipe > 0
         /\ \A u \in Threads \ {t} : pc[u] = "idle") ~> (pc[t] = "idle")

\* C2: on a MULTI-mode worker, when thread u is blocked inside wait() and
\* thread t calls signal(), the signal() call completes and the wait()
\* returns.
C2_SignalWakesBlockedWait ==
    \A t, u \in Threads :
        (LockRequired /\ t # u /\ pc[u] = "wait_epoll" /\ pc[t] = "signal_enter")
            ~> (pc[t] = "idle" /\ pc[u] # "wait_epoll")

\* C3: wait() reaches its epoll_wait only with arm()'s status OK in hand,
\* and when arm() reported BUSY its next step is to return OK.
C3_WaitBlocksOnlyAfterArmOk ==
    /\ [](\A t \in Threads : pc[t] = "wait_epoll" => status[t] = "OK")
    /\ [][\A t \in Threads :
            (pc[t] = "wait_armed" /\ status[t] = "BUSY" /\ pc'[t] # "wait_armed")
                => (pc'[t] = "idle" /\ ret'.status = "OK")]_vars

\* C3 witness: inside wait(), arm() has just reported BUSY because an
\* interface has pending work.
C3_Witness ==
    \E t \in Threads :
        /\ pc[t] = "wait_armed"
        /\ status[t] = "BUSY"
        /\ \E i \in WakeupTls : iface_events[i]

\* C4: the slot is -1 exactly while no epoll object is open; once set, it
\* names the one open epoll object, which holds the pipe's read end and
\* every interface wakeup descriptor. A get_efd() on a set slot returns it
\* and changes nothing; a successful first call sets the slot and returns
\* it; a failed call leaves the slot at -1 and no epoll object open.
C4_GetEfdLazyIdempotent ==
    /\ [](/\ wakeup_efd = -1 => (epoll_open = 0 /\ epoll_set = {})
          /\ wakeup_efd # -1 =>
                /\ epoll_open = 1
                /\ epoll_set = {PIPE_FD} \cup {i \in Tls : iface_wakeups[i]})
    /\ [][\A t \in Threads :
            (pc[t] = "get_efd_enter" /\ pc'[t] = "idle") =>
                /\ wakeup_efd # -1 =>
                      /\ ret'.status = "OK"
                      /\ ret'.fd = wakeup_efd
                      /\ UNCHANGED <<wakeup_efd, epoll_set, epoll_open>>
                /\ ret'.status = "OK" =>
                      (wakeup_efd' # -1 /\ ret'.fd = wakeup_efd')
                /\ ret'.status # "OK" =>
                      /\ wakeup_efd' = -1
                      /\ epoll_open' = 0
                      /\ ret'.fd = -1]_vars

\* C4 witness: get_efd() has returned the descriptor of a worker that has
\* an interface with a wakeup descriptor.
C4_Witness ==
    /\ wakeup_efd # -1
    /\ ret.fd = wakeup_efd
    /\ WakeupTls # {}

PositionOf(seq, key) ==
    IF \E n \in DOMAIN seq : seq[n] = key
    THEN CHOOSE n \in DOMAIN seq : seq[n] = key
    ELSE 0

\* C6: no two entries of the cache hold equal keys, and every call that
\* returns gives the key the index k-1, where the key was the k-th distinct
\* key ever presented: so equal keys get equal indices, unequal keys
\* different ones, and the index of a key never changes.
C6_EpConfigInterning ==
    /\ [](\A i, j \in 0 .. (ep_config_count - 1) :
            ucp_ep_config_is_equal(ep_config[i].key, ep_config[j].key)
                => i = j)
    /\ [][terminated' = "none" =>
            /\ PositionOf(presented', cfg_ret'.key) >= 1
            /\ cfg_ret'.idx = PositionOf(presented', cfg_ret'.key) - 1
            /\ ep_config'[cfg_ret'.idx].key = cfg_ret'.key
            /\ \A n \in DOMAIN presented : presented'[n] = presented[n]
            /\ \A i \in 0 .. (ep_config_count - 1) :
                  ep_config'[i] = ep_config[i]]_vars

\* C6 witness: after at least three keys were interned, a call with the
\* all-zero key, which was not the first, has returned its old index.
C6_Witness ==
    /\ ep_config_count >= 3
    /\ cfg_ret.key = 0
    /\ cfg_ret.idx >= 1
    /\ cfg_ret.idx < ep_config_count - 1

\* C7: ep_config_count <= ep_config_max = min((num_tls+1)^2 * num_tls, 255),
\* the array has ep_config_max entries, and a returned index is below
\* ep_config_count. A call writes an entry only below ep_config_max; with
\* the cache full, a call with a new key is fatal and writes nothing, and a
\* call with an interned key can still return its index.
C7_EpConfigBounded ==
    /\ [](/\ ep_config_max =
                (IF (num_tls + 1) * (num_tls + 1) * num_tls < 255
                 THEN (num_tls + 1) * (num_tls + 1) * num_tls ELSE 255)
          /\ ep_config_count <= ep_config_max
          /\ DOMAIN ep_config = 0 .. (ep_config_max - 1)
          /\ cfg_ret.idx < ep_config_count
          /\ cfg_ret.idx <= 255)
    /\ [](Running /\ ep_config_count = ep_config_max =>
            \A i \in 0 .. (ep_config_count - 1) :
                ENABLED (/\ GetEpConfig(ep_config[i].key)
                         /\ terminated' = "none"
                         /\ cfg_ret' = [key |-> ep_config[i].key, idx |-> i]))
    /\ [][/\ ep_config_count' > ep_config_count =>
                ep_config_count < ep_config_max
          /\ (ep_config_count = ep_config_max /\ presented' # presented) =>
                /\ terminated' = "fatal_ep_config"
                /\ UNCHANGED <<ep_config, ep_config_count, cfg_ret>>
          /\ terminated' = "fatal_ep_config" =>
                /\ ep_config_count = ep_config_max
                /\ presented' # presented]_vars

\* C7 witness: a call with a new key on a full, non-empty cache has been
\* fatal.
C7_Witness ==
    /\ terminated = "fatal_ep_config"
    /\ ep_config_max > 0
    /\ ep_config_count = ep_config_max
    /\ \A i \in 0 .. (ep_config_count - 1) :
          ep_config[i].key # presented[Len(presented)]

\* Where a thread is inside a call, past its entry.
InCall(t) == pc[t] \in {"progress_uct", "arm_drain", "wait_arm", "wait_drain",
                        "wait_armed", "wait_epoll"}

\* C8: on a MULTI-mode worker the reentry assertion never fails, the
\* reentry counter is the number of threads inside progress(), which is at
\* most one; the thread inside holds the worker lock and a thread that is
\* in no call, or waits to enter one, does not.
C8_ProgressExclusive ==
    LockRequired =>
        /\ terminated # "assert_inprogress"
        /\ inprogress = Cardinality({t \in Threads : pc[t] = "progress_uct"})
        /\ inprogress <= 1
        /\ \A t \in Threads : pc[t] = "progress_uct" => mt_lock.owner = t
        /\ \A t \in Threads : ~InCall(t) => mt_lock.owner # t

\* C8 witness: on a MULTI-mode worker one thread is inside progress()
\* while another has called progress() too.
C8_Witness ==
    /\ LockRequired
    /\ \E t, u \in Threads :
          pc[t] = "progress_uct" /\ pc[u] = "progress_enter"

\* C9: on a MULTI-mode worker a thread that is inside a call reading or
\* writing interface or wakeup state holds the worker lock, and no two
\* threads are inside such calls at the same time.
C9_LockHeldOnAccess ==
    LockRequired =>
        /\ \A t \in Threads : InCall(t) => mt_lock.owner = t
        /\ \A t, u \in Threads : (InCall(t) /\ InCall(u)) => t = u

\* C10: when the selector has run under the CPU policy with atomics in the
\* feature set, bit i of atomic_tls is set exactly for the resources
\* i < num_tls whose capability flags include ATOMIC_CPU, and no bit from
\* num_tls up is set.
C10_CpuAtomicsMask ==
    (/\ atomic_init = "done"
     /\ features \cap {"AMO32", "AMO64"} # {}
     /\ atomic_mode = "CPU") =>
        /\ atomic_tls >= 0
        /\ atomic_tls < UCS_BIT(num_tls)
        /\ \A i \in 0 .. (num_tls - 1) :
              TestBit(atomic_tls, i) <=>
                  "ATOMIC_CPU" \in iface_attrs[i].flags

\* C10 witness: the CPU policy has enabled one resource and left out
\* another that has device atomics only.
C10_Witness ==
    /\ atomic_init = "done"
    /\ features \cap {"AMO32", "AMO64"} # {}
    /\ atomic_mode = "CPU"
    /\ \E i, j \in 0 .. (num_tls - 1) :
          /\ "ATOMIC_CPU" \in iface_attrs[i].flags
          /\ TestBit(atomic_tls, i)
          /\ iface_attrs[j].flags = {"ATOMIC_DEVICE", "ATOMIC_OPS"}
          /\ ~TestBit(atomic_tls, j)

\* The selector has run under policy mode with atomics in the feature set.
SelectedUnder(mode) ==
    /\ atomic_init = "done"
    /\ features \cap {"AMO32", "AMO64"} # {}
    /\ atomic_mode = mode

\* The resources that can carry device atomics: a memory domain that
\* registers memory, and every required capability flag.
Candidates ==
    {i \in 0 .. (num_tls - 1) :
        /\ "REG" \in tl_mds[tl_rscs[i].md_index]
        /\ {"ATOMIC_OPS", "ATOMIC_DEVICE"} \subseteq iface_attrs[i].flags}

\* Candidate i is at least as good as candidate j: a higher score, or the
\* same score and no lower priority.
AtLeastAsGood(i, j) ==
    \/ iface_attrs[i].score > iface_attrs[j].score
    \/ /\ iface_attrs[i].score = iface_attrs[j].score
       /\ iface_attrs[i].priority >= iface_attrs[j].priority

\* The winner: the best candidate, the first of them when several are
\* equally good.
Winner ==
    CHOOSE w \in Candidates :
        /\ \A j \in Candidates : AtLeastAsGood(w, j)
        /\ \A j \in Candidates :
              (AtLeastAsGood(j, w) /\ AtLeastAsGood(w, j)) => w <= j

\* Resources i and w are on the same device of the same memory domain.
SameDevice(i, w) ==
    /\ tl_rscs[i].md_index = tl_rscs[w].md_index
    /\ tl_rscs[i].dev_name = tl_rscs[w].dev_name

CpuEnabled ==
    {i \in 0 .. (num_tls - 1) : "ATOMIC_CPU" \in iface_attrs[i].flags}

\* The resources the DEVICE policy enables (C11 as amended).
DeviceEnabled ==
    IF Candidates = {} THEN {}
    ELSE {i \in Candidates : SameDevice(i, Winner)}

\* The resources whose bit is set in atomic_tls.
MaskSet == {i \in 0 .. (num_tls - 1) : TestBit(atomic_tls, i)}

\* C12: under the GUESS policy the mask is the DEVICE policy's mask when
\* some interface advertises device atomics, and the CPU policy's mask
\* otherwise.
C12_GuessIsDeviceOrCpu ==
    SelectedUnder("GUESS") =>
        /\ atomic_tls >= 0
        /\ atomic_tls < UCS_BIT(num_tls)
        /\ MaskSet =
              (IF \E i \in 0 .. (num_tls - 1) :
                      "ATOMIC_DEVICE" \in iface_attrs[i].flags
               THEN DeviceEnabled ELSE CpuEnabled)

\* C12 witness: under GUESS an interface advertises device atomics, so the
\* DEVICE policy was applied, and an interface with host atomics that the
\* CPU policy would enable is left out.
C12_Witness ==
    /\ SelectedUnder("GUESS")
    /\ Candidates # {}
    /\ MaskSet # {}
    /\ CpuEnabled \ MaskSet # {}

Qualifying ==
    CASE atomic_mode = "CPU" -> CpuEnabled
      [] atomic_mode = "DEVICE" -> Candidates
      [] OTHER -> IF \E i \in 0 .. (num_tls - 1) :
                         "ATOMIC_DEVICE" \in iface_attrs[i].flags
                  THEN Candidates ELSE CpuEnabled

UctValidated == perf_status # "none" /\ perf_params.api = "UCT"
                    /\ perf_attr.query = "OK"

\* The parameters are well formed: a total size of at least one byte, at
\* least one outstanding operation, no list entry above a non-zero stride.
WellFormed ==
    /\ SumList(perf_params.msg_size_list) >= 1
    /\ perf_params.max_outstanding >= 1
    /\ perf_params.iov_stride > 0 =>
           \A k \in DOMAIN perf_params.msg_size_list :
               perf_params.msg_size_list[k] <= perf_params.iov_stride

\* The flags the table of required flags lists for the command and layout
\* under validation; `known` is FALSE where the table has no entry.
TableFlags ==
    LET c == perf_params.command
        l == perf_params.data_layout
        sz == SumList(perf_params.msg_size_list)
        copy == {"SHORT", "BCOPY", "ZCOPY"}
    IN  [known |-> \/ c \in {"AM", "PUT"} /\ l \in copy
                   \/ c = "GET" /\ l \in {"BCOPY", "ZCOPY"}
                   \/ c \in AtomicCommands /\ sz \in {4, 8},
         flags |->
             (IF c \in {"AM", "PUT", "GET"}
              THEN {c \o "_" \o l} \cap IfaceFlags ELSE {})
             \cup (IF c = "AM" THEN {"AM_CB_SYNC"} ELSE {})
             \cup (IF c \in AtomicCommands /\ sz = 4
                   THEN {"ATOMIC_" \o c \o "32"} ELSE {})
             \cup (IF c \in AtomicCommands /\ sz = 8
                   THEN {"ATOMIC_" \o c \o "64"} ELSE {})]

\* C14: the capability validator returns OK only if the interface
\* advertises every flag the command and layout require (AM: the layout's
\* AM flag and the sync-AM-callback flag; PUT: the layout's PUT flag; GET:
\* the BCOPY or ZCOPY GET flag, SHORT being rejected on every interface;
\* ADD/FADD/SWAP/CSWAP: the 32- or 64-bit flag of the operation); with
\* well-formed parameters a missing required flag yields UNSUPPORTED.
C14_OkOnlyWithRequiredFlags ==
    UctValidated =>
        /\ perf_status = "OK" =>
               (TableFlags.known
                    /\ TableFlags.flags \subseteq perf_attr.cap.flags)
        /\ (perf_params.command = "GET" /\ perf_params.data_layout = "SHORT")
               => perf_status # "OK"
        /\ ( /\ WellFormed
             /\ perf_params.command \in {"AM", "PUT", "GET"} \cup AtomicCommands
             /\ ~(TableFlags.flags \subseteq perf_attr.cap.flags) )
               => perf_status = "UNSUPPORTED"

\* C14 witness: a well-formed zero-copy GET was refused as UNSUPPORTED on
\* an interface that advertises everything but GET_ZCOPY.
C14_Witness ==
    /\ UctValidated
    /\ WellFormed
    /\ perf_params.command = "GET"
    /\ perf_params.data_layout = "ZCOPY"
    /\ perf_attr.cap.flags = IfaceFlags \ {"GET_ZCOPY"}
    /\ perf_status = "UNSUPPORTED"

\* The commands each API path has a case for.
UctCommands == {"AM", "PUT", "GET"} \cup AtomicCommands
UcpCommands == {"PUT", "GET", "TAG"} \cup AtomicCommands

\* The size bounds the table lists for the command and layout under
\* validation, on the interface under validation.
TableLimits ==
    LET c == perf_params.command
        l == perf_params.data_layout
        a == CASE c = "AM" -> perf_attr.cap.am
               [] c = "PUT" -> perf_attr.cap.put
               [] OTHER -> perf_attr.cap.get
    IN  IF c \in AtomicCommands THEN [min |-> 0, max |-> 8]
        ELSE [min |-> IF l = "ZCOPY" THEN a.min_zcopy ELSE 0,
              max |-> CASE l = "SHORT" /\ c # "GET" -> a.max_short
                        [] l = "BCOPY" -> a.max_bcopy
                        [] l = "ZCOPY" -> a.max_zcopy
                        [] OTHER -> 0]

\* The total message size is outside the bounds of the table.
SizeOutOfBounds ==
    \/ SumList(perf_params.msg_size_list) < TableLimits.min
    \/ SumList(perf_params.msg_size_list) > TableLimits.max

\* A required flag is missing, or the table has no flag for the request.
FlagShortfall ==
    ~TableFlags.known \/ ~(TableFlags.flags \subseteq perf_attr.cap.flags)

\* C15: the validator rejects every input whose total size is < 1, below
\* the layout's minimum or above its maximum, whose max_outstanding is < 1
\* or that has a list entry above a non-zero stride. Malformed parameters
\* (these and an unsupported command) yield INVALID_PARAM, on either API
\* path; capability shortfalls of well-formed parameters (a missing flag, a
\* size outside [min, max]) yield UNSUPPORTED; with both kinds of fault
\* INVALID_PARAM is returned.
C15_MalformedBeforeShortfall ==
    /\ UctValidated =>
        /\ (~WellFormed \/ SizeOutOfBounds) => perf_status # "OK"
        /\ (~WellFormed \/ perf_params.command \notin UctCommands)
               => perf_status = "INVALID_PARAM"
        /\ ( /\ WellFormed
             /\ perf_params.command \in UctCommands
             /\ (FlagShortfall \/ SizeOutOfBounds) )
               => perf_status = "UNSUPPORTED"
    /\ (perf_status # "none" /\ perf_params.api = "UCP") =>
        ((~WellFormed \/ perf_params.command \notin UcpCommands)
               => perf_status = "INVALID_PARAM")

\* C15 witness: a PUT with both kinds of fault, an entry above the stride
\* and a total above the interface's max_bcopy, was refused as
\* INVALID_PARAM.
C15_Witness ==
    /\ UctValidated
    /\ perf_params.command = "PUT"
    /\ perf_params.data_layout = "BCOPY"
    /\ perf_params.max_outstanding = 1
    /\ perf_params.msg_size_list = <<8>>
    /\ perf_params.iov_stride = 4
    /\ perf_attr.cap.put.max_bcopy = 4
    /\ perf_status = "INVALID_PARAM"

\* A validator has returned for an atomic command whose parameters are
\* otherwise in order: one list entry, at least one outstanding operation,
\* no stride, and (transport API) an interface that could be queried.
AtomicValidated ==
    /\ perf_status # "none"
    /\ perf_params.command \in AtomicCommands
    /\ Len(perf_params.msg_size_list) = 1
    /\ perf_params.max_outstanding >= 1
    /\ perf_params.iov_stride = 0
    /\ perf_params.api = "UCT" => perf_attr.query = "OK"

\* The interface lacks the flag of the atomic operation at its size; the
\* messaging API consults no interface.
AtomicFlagMissing ==
    /\ perf_params.api = "UCT"
    /\ ~(TableFlags.flags \subseteq perf_attr.cap.flags)

\* C16: for ADD, FADD, SWAP and CSWAP, on both API paths, message sizes 4
\* and 8 are accepted (given the matching 32/64-bit capability) and any
\* other message size is rejected with INVALID_PARAM.
C16_AtomicSizes ==
    AtomicValidated =>
        IF perf_params.msg_size_list[1] \in {4, 8}
        THEN ~AtomicFlagMissing => perf_status = "OK"
        ELSE perf_status = "INVALID_PARAM"

\* The transport-API validator has returned for an AM request that passes
\* the parameter, flag and size rules.
AmValidated ==
    /\ UctValidated
    /\ perf_params.command = "AM"
    /\ WellFormed
    /\ ~FlagShortfall
    /\ ~SizeOutOfBounds

\* The AM header rules, one by one.
ShortHdrNot8 ==
    perf_params.data_layout = "SHORT" /\ perf_params.am_hdr_size # 8
ZcopyHdrAboveMax ==
    /\ perf_params.data_layout = "ZCOPY"
    /\ perf_params.am_hdr_size > perf_attr.cap.am.max_hdr
HdrAboveTotal ==
    perf_params.am_hdr_size > SumList(perf_params.msg_size_list)
HdrAboveFirstEntry ==
    /\ perf_params.data_layout = "ZCOPY"
    /\ Len(perf_params.msg_size_list) > 1
    /\ perf_params.am_hdr_size > perf_params.msg_size_list[1]
\* The other rules an AM request is subject to.
FcWindowAboveMax == perf_params.fc_window > UCT_PERF_TEST_MAX_FC_WINDOW
TooManyIov ==
    /\ perf_params.data_layout = "ZCOPY"
    /\ Len(perf_params.msg_size_list) > perf_attr.cap.am.max_iov

\* C17: for the AM command the validator rejects SHORT layout with
\* am_hdr_size # 8 (INVALID_PARAM), ZCOPY layout with am_hdr_size above
\* attr.max_hdr (UNSUPPORTED), am_hdr_size above the total message size
\* (INVALID_PARAM) and, for ZCOPY with more than one IOV entry, am_hdr_size
\* above the first entry (INVALID_PARAM), each status being returned where
\* the rule is the first one broken; an AM request that passes every rule
\* is accepted with OK, with or without the ONE_SIDED flag.
C17_AmHeaderRules ==
    (UctValidated /\ perf_params.command = "AM") =>
        /\ (ShortHdrNot8 \/ ZcopyHdrAboveMax \/ HdrAboveTotal
                \/ HdrAboveFirstEntry) => perf_status # "OK"
        /\ AmValidated =>
            /\ ShortHdrNot8 => perf_status = "INVALID_PARAM"
            /\ ZcopyHdrAboveMax => perf_status = "UNSUPPORTED"
            /\ (HdrAboveTotal /\ ~ZcopyHdrAboveMax)
                   => perf_status = "INVALID_PARAM"
            /\ (HdrAboveFirstEntry /\ ~ZcopyHdrAboveMax /\ ~TooManyIov)
                   => perf_status = "INVALID_PARAM"
            /\ ~(ShortHdrNot8 \/ ZcopyHdrAboveMax \/ HdrAboveTotal
                    \/ HdrAboveFirstEntry \/ FcWindowAboveMax \/ TooManyIov)
                   => perf_status = "OK"

\* C17 witness: a zero-copy AM of two entries whose header fits the total
\* and the interface but not the first entry was refused as INVALID_PARAM,
\* and it carried the ONE_SIDED flag.
C17_Witness ==
    /\ AmValidated
    /\ HdrAboveFirstEntry
    /\ ~HdrAboveTotal
    /\ ~ZcopyHdrAboveMax
    /\ ~TooManyIov
    /\ perf_params.flags = {"ONE_SIDED"}
    /\ perf_status = "INVALID_PARAM"

\* The zero-copy request has more list entries than the interface takes
\* for the command (one for the atomic commands; GET's limit stands for a
\* command the transport API does not have).
TooManyIovForCommand ==
    /\ perf_params.data_layout = "ZCOPY"
    /\ Len(perf_params.msg_size_list) >
           CASE perf_params.command = "AM" -> perf_attr.cap.am.max_iov
             [] perf_params.command = "PUT" -> perf_attr.cap.put.max_iov
             [] perf_params.command \in AtomicCommands -> 1
             [] OTHER -> perf_attr.cap.get.max_iov

\* A rule of the reject list that does not depend on fc_window is broken.
RuleBroken ==
    \/ ~WellFormed
    \/ perf_params.command \notin UctCommands
    \/ FlagShortfall
    \/ SizeOutOfBounds
    \/ TooManyIovForCommand
    \/ /\ perf_params.command = "AM"
       /\ (ShortHdrNot8 \/ ZcopyHdrAboveMax \/ HdrAboveTotal
               \/ HdrAboveFirstEntry)

\* A validator step leaves the parameters, the interface and the worker as
\* they were.
ValidatorFrame ==
    perf_status' # perf_status =>
        /\ perf_params' = perf_params
        /\ perf_attr' = perf_attr
        /\ UNCHANGED <<thread_mode, num_tls, iface_wakeups, cvars, avars,
                       svars, tvars, rvars, xvars>>

\* C18: every validator input that breaks a rule of the reject list
\* returns a non-OK status, for every command; in particular fc_window
\* above the configured upper bound is rejected whatever the command is.
\* The validator changes neither the parameters nor any worker or
\* interface state.
C18_FcWindowAnyCommand ==
    /\ [](UctValidated =>
              ((RuleBroken \/ FcWindowAboveMax) => perf_status # "OK"))
    /\ [][ValidatorFrame]_vars

\* C18 amended: every validator input that breaks a rule of the reject
\* list returns a non-OK status, the AM header rules and the bound on
\* fc_window being rules of the AM command only (fc_window is not looked
\* at for any other command). The validator changes neither the
\* parameters nor any worker or interface state.
C18_FcWindowAmOnly ==
    /\ [](UctValidated =>
              /\ (RuleBroken \/ (perf_params.command = "AM"
                                     /\ FcWindowAboveMax))
                     => perf_status # "OK"
              /\ ~(RuleBroken \/ perf_params.command = "AM")
                     => perf_status = "OK")
    /\ [][ValidatorFrame]_vars

\* C18 witness: an AM request whose only fault is an fc_window above the
\* bound was refused.
C18_Witness ==
    /\ UctValidated
    /\ perf_params.command = "AM"
    /\ ~RuleBroken
    /\ FcWindowAboveMax
    /\ perf_status = "INVALID_PARAM"

\* A validator has returned for a zero-copy request of several list
\* entries with nothing else at fault: a command of the API path,
\* well-formed parameters and, on the transport path, the flags advertised,
\* the minimum size met and the AM header and fc_window rules kept.
ZcopyIovValidated ==
    /\ perf_status # "none"
    /\ perf_attr.query = "OK"
    /\ perf_params.data_layout = "ZCOPY"
    /\ Len(perf_params.msg_size_list) > 1
    /\ WellFormed
    /\ perf_params.command \in
           (IF perf_params.api = "UCT" THEN {"AM", "PUT", "GET"}
            ELSE {"TAG", "PUT", "GET"})
    /\ perf_params.api = "UCT" =>
        /\ ~FlagShortfall
        /\ SumList(perf_params.msg_size_list) >= TableLimits.min
        /\ perf_params.command = "AM" =>
               ~(ZcopyHdrAboveMax \/ HdrAboveTotal \/ HdrAboveFirstEntry
                     \/ FcWindowAboveMax)

\* The interface takes the request: as many IOV entries and as many bytes
\* of zero-copy as it has. (A messaging-API command has its limits looked
\* up as GET's: the interfaces explored have the same limits for all.)
IfaceTakesIov ==
    /\ ~TooManyIovForCommand
    /\ SumList(perf_params.msg_size_list) <= TableLimits.max

\* C19: a zero-copy request with msg_size_cnt IOV entries (tag included) is
\* accepted only when the interface advertises max_iov >= msg_size_cnt and
\* max_zcopy >= the total message size; otherwise the validator returns
\* UNSUPPORTED.
C19_ZcopyIovAnyPath ==
    ZcopyIovValidated =>
        IF IfaceTakesIov THEN perf_status = "OK"
        ELSE perf_status = "UNSUPPORTED"

\* C19 amended: on the transport path a zero-copy AM, PUT or GET with
\* msg_size_cnt IOV entries and nothing else at fault is accepted exactly
\* when the interface advertises max_iov >= msg_size_cnt and max_zcopy >=
\* the total message size, and returns UNSUPPORTED otherwise; the
\* messaging-API validator consults no interface and accepts a well-formed
\* zero-copy tag, PUT or GET whatever the interfaces advertise.
C19_ZcopyIovTransportPath ==
    ZcopyIovValidated =>
        IF perf_params.api = "UCP" \/ IfaceTakesIov THEN perf_status = "OK"
        ELSE perf_status = "UNSUPPORTED"

\* C19 witness: a zero-copy PUT of two entries was refused as UNSUPPORTED
\* by an interface that takes one IOV entry.
C19_Witness ==
    /\ ZcopyIovValidated
    /\ perf_params.api = "UCT"
    /\ perf_params.command = "PUT"
    /\ perf_attr.cap.put.max_iov = 1
    /\ perf_attr.cap.put.max_zcopy >= SumList(perf_params.msg_size_list)
    /\ perf_status = "UNSUPPORTED"

\* Every peer has returned from ucp_perf_test_setup_endpoints.
AllReturned == peer_ret # <<>> /\ \A p \in Peers : peer_ret[p] # "none"

\* C20: messaging-API endpoint setup is collectively consistent: whatever
\* the local outcomes of the peers, once all have returned either every
\* peer returned OK, or every peer returned the same non-OK status and has
\* destroyed every endpoint and remote key it created.
C20_CollectiveStatus ==
    AllReturned =>
        \/ \A p \in Peers : peer_ret[p] = "OK"
        \/ \E s \in Errors : \A p \in Peers :
               /\ peer_ret[p] = s
               /\ peer_eps[p] = {}
               /\ peer_rkeys[p] = {}

\* The calls that failed on peer p of their own accord.
OwnFaults(p) == peer_fault[p] \ {"misread"}

\* Every peer is past the local part of setup, exactly one peer's
\* ucp_rkey_pack failed, with NO_MEMORY, and no other call failed of its
\* own accord on any peer.
OneRkeyPackFailure ==
    /\ peer_pc # <<>>
    /\ \A p \in Peers : peer_pc[p] # "start"
    /\ \E q \in Peers :
          /\ OwnFaults(q) = {"rkey_pack"}
          /\ peer_status[q] = "NO_MEMORY"
          /\ \A p \in Peers \ {q} : OwnFaults(p) = {}

\* Every peer has returned NO_MEMORY, holds no endpoint or remote key and
\* has read every vector as what it was posted as.
AllReturnedNoMemory ==
    \A p \in Peers :
        /\ peer_ret[p] = "NO_MEMORY"
        /\ peer_eps[p] = {}
        /\ peer_rkeys[p] = {}
        /\ "misread" \notin peer_fault[p]

\* C21: when exactly one peer's remote-key pack fails with NO_MEMORY,
\* every peer's setup_endpoints terminates and returns NO_MEMORY, the
\* healthy peers having decoded a genuine address record, no peer being
\* left waiting in an exchange or holding an endpoint.
C21_RkeyPackFailureSeenByAll ==
    OneRkeyPackFailure ~> (~OneRkeyPackFailure \/ AllReturnedNoMemory)

\* C22: in the multi-thread driver the bytes the threads work on in the send
\* buffer, and in the receive buffer, each thread from thread_id *
\* message_size on, are pairwise disjoint and lie inside the region of
\* buffer_size * thread_count bytes, for every thread_count and parameter
\* set, a multi-entry list with iov_stride > 0 included.
C22_ThreadRangesDisjoint ==
    drv_pc = "parallel" =>
        /\ \A t \in Tids : \A u \in Tids \ {t} :
               /\ BufferBytes(drv_params, drv_tctx[t].perf.send_buffer)
                      \cap BufferBytes(drv_params, drv_tctx[u].perf.send_buffer)
                      = {}
               /\ BufferBytes(drv_params, drv_tctx[t].perf.recv_buffer)
                      \cap BufferBytes(drv_params, drv_tctx[u].perf.recv_buffer)
                      = {}
        /\ \A t \in Tids :
               /\ BufferBytes(drv_params, drv_tctx[t].perf.send_buffer)
                      \subseteq 0 .. (RegionLength(drv_params) - 1)
               /\ BufferBytes(drv_params, drv_tctx[t].perf.recv_buffer)
                      \subseteq 0 .. (RegionLength(drv_params) - 1)

\* The slots that hold a failure once the driver has joined its threads.
FailedSlots ==
    IF drv_statuses = <<>> THEN {}
    ELSE {ti \in DOMAIN drv_statuses : drv_statuses[ti] # "OK"}

\* C23: when the driver returns after its parallel region, a non-OK slot
\* gives the caller a non-OK status, several failures give the status of the
\* failing slot of the lowest thread index, and the caller gets OK only when
\* every slot is OK.
C23_FirstFailureWins ==
    (drv_pc = "returned" /\ drv_statuses # <<>>) =>
        /\ FailedSlots # {} =>
               /\ drv_status # "OK"
               /\ \E ti \in FailedSlots :
                      /\ \A tj \in FailedSlots : ti <= tj
                      /\ drv_status = drv_statuses[ti]
        /\ drv_status = "OK" => FailedSlots = {}

\* C24: while a thread warms up its iteration bound is min(warmup_iter,
\* max_iter / 10) with 0 read as unbounded: at most warmup_iter and at most a
\* tenth of max_iter in a bounded run, exactly warmup_iter in an unbounded
\* run (max_iter = 0); and its periodic report is disabled.
C24_WarmupBound ==
    \A t \in Tids :
        (drv_pc = "parallel" /\ drv_tctx[t].pc = "warmup") =>
            /\ drv_params.max_iter # 0 =>
                   /\ drv_tctx[t].perf.max_iter <= drv_params.warmup_iter
                   /\ drv_tctx[t].perf.max_iter * 10 <= drv_params.max_iter
            /\ drv_params.max_iter = 0 =>
                   drv_tctx[t].perf.max_iter = drv_params.warmup_iter
            /\ drv_tctx[t].perf.report_interval = UINT64_MAX

\* The descriptors the application holds: those of the backlog.
HeldDescs == {am_backlog[k] : k \in 1 .. Len(am_backlog)}

RegistrationFailed ==
    /\ wc_pc = "returned"
    /\ wc_fault.call \in {"ucp_worker_set_am_handlers",
                          "uct_iface_set_am_tracer"}

\* C26: when the registration of an active-message handler or of the tracer
\* fails on interface k during worker creation, creation returns the error,
\* hands out no worker, and interface k and the interfaces 0 .. k-1 opened
\* before it are closed together with their wakeup handles.
C26_RegistrationFailureClosesAll ==
    RegistrationFailed =>
        /\ wc_status \in {"NO_MEMORY", "IO_ERROR"}
        /\ ~wc_worker_p
        /\ wc_open_ifaces \cap (0 .. wc_fault.tl) = {}
        /\ wc_open_wakeups \cap (0 .. wc_fault.tl) = {}

\* The registration failed on a later interface after an interface with a
\* wakeup handle had been opened.
C26_Witness ==
    /\ RegistrationFailed
    /\ wc_fault.tl > 0
    /\ wc_iface_wakeups[0]

\* What peer i packed into its record, field by field.
PackedFields(i) ==
    LET info == UctInfo(i)
        payload == UctPayload(i, info)
    IN  [recv_buffer |-> info.recv_buffer,
         rkey_size |-> info.rkey_size,
         rkey |-> Whole(payload[1].tag, payload[1].len),
         dev |-> Whole(payload[2].tag, payload[2].len),
         iface |-> Whole(payload[3].tag, payload[3].len),
         ep |-> Whole(payload[4].tag, payload[4].len)]

C28_EndpointsPairUp ==
    (uct_peers # <<>> /\ "CONNECT_TO_EP" \in uct_cfg.flags) =>
        \A j \in Members : \A i \in Members \ {j} :
            (uct_peers[j] # <<>> /\ uct_peers[j][i].ep.state = "connected")
                => uct_peers[j][i].ep.to
                       = Whole(<<"ep", i, j>>, uct_cfg.ep_addr_len)

OnlyUnpackedReleased ==
    \A p \in Members : uct_hist[p].bad = {}

\* C30: after the transport-API endpoint setup an entry of the peer table
\* holds an unpacked remote key if and only if the memory domain of the
\* peer it stands for advertised ALLOC or REG, every other entry holds the
\* invalid key, and neither the error path nor the teardown releases a key
\* that was not unpacked.
C30_RkeyIffAllocOrReg ==
    uct_pc # <<>> =>
        /\ \A p \in Members : \A i \in Members \ {p} :
               uct_pc[p] = "ready" =>
                   IF uct_cfg.md[i].flags \cap {"ALLOC", "REG"} # {}
                   THEN uct_peers[p][i].rkey.rkey = "key"
                   ELSE uct_peers[p][i].rkey.rkey = "INVALID"
        /\ OnlyUnpackedReleased

\* C30, amended: the entry holds an unpacked key if and only if the memory
\* domain of its peer advertised ALLOC or REG and reports a packed key of
\* more than 0 bytes; every other entry holds the invalid key, and no key
\* is released that was not unpacked.
C30_RkeyIffPackedKey ==
    uct_pc # <<>> =>
        /\ \A p \in Members : \A i \in Members \ {p} :
               uct_pc[p] = "ready" =>
                   IF /\ uct_cfg.md[i].flags \cap {"ALLOC", "REG"} # {}
                      /\ uct_cfg.md[i].rkey_packed_size > 0
                   THEN uct_peers[p][i].rkey.rkey = "key"
                   ELSE uct_peers[p][i].rkey.rkey = "INVALID"
        /\ OnlyUnpackedReleased

\* A peer is back from the setup with an unpacked key in one entry of its
\* table and the invalid key in another.
C30_Witness ==
    /\ uct_pc # <<>>
    /\ \E p \in Members :
           /\ uct_pc[p] = "ready"
           /\ \E i \in Members \ {p} : uct_peers[p][i].rkey.rkey = "key"
           /\ \E i \in Members \ {p} : uct_peers[p][i].rkey.rkey = "INVALID"

\* The handler ids an interface of flags caps must carry after bring-up.
ExpectedHandlers(caps) ==
    {am_id \in AmIds :
        /\ "AM" \in caps
        /\ ucp_am_handlers[am_id].features \cap wc_features # {}
        /\ ~ucp_am_handlers[am_id].sync \/ "AM_CB_SYNC" \in caps}

\* C31: while the worker is being created and used, an interface that was
\* brought up carries the callback of handler id h exactly when it
\* advertises active messages, the features of h intersect the features of
\* the worker, and h is not sync or the interface advertises sync
\* callbacks; an interface without active messages carries no handler.
C31_HandlersRegistered ==
    wc_pc \in {"open", "returned"} =>
        \A tl_id \in DOMAIN wc_ifaces :
            wc_ifaces[tl_id] =>
                /\ {am_id \in AmIds : wc_handlers[tl_id][am_id] = "cb"}
                       = ExpectedHandlers(wc_caps[tl_id])
                /\ "AM" \notin wc_caps[tl_id] =>
                       \A am_id \in AmIds : wc_handlers[tl_id][am_id] = "none"

\* Two interfaces are up on a worker with the tag feature: one takes sync
\* callbacks and carries the eager handler, the other carries the wireup
\* handler without it.
C31_Witness ==
    /\ WorkerLive
    /\ \E a \in DOMAIN wc_ifaces, b \in DOMAIN wc_ifaces :
          /\ wc_ifaces[a] /\ wc_ifaces[b]
          /\ wc_handlers[a]["EAGER"] = "cb"
          /\ wc_handlers[b]["WIREUP"] = "cb"
          /\ wc_handlers[b]["EAGER"] = "none"
          /\ wc_handlers[b]["REPLY"] = "none"

\* What a creation that fails at wc_fault must have released, last
\* acquired first: the interface just opened, the interfaces and wakeup
\* handles of the earlier turns, then what was acquired before the loop.
RECURSIVE ReverseCloses(_)
ReverseCloses(r) ==
    IF r < 0 THEN <<>>
    ELSE (IF wc_iface_wakeups[r] THEN <<Event("uct_wakeup_close", r)>>
          ELSE <<>>)
         \o <<Event("uct_iface_close", r)>> \o ReverseCloses(r - 1)

\* The calls of ucp_worker_add_iface made after uct_iface_open succeeded.
AfterOpen == {"uct_iface_query", "ucp_worker_set_am_handlers",
              "uct_iface_set_am_tracer", "uct_wakeup_open"}

CreateFailed == wc_pc = "returned" /\ wc_fault.call # "none"

\* A failed creation left no interface and no wakeup handle open.
NothingLeftOpen == wc_open_ifaces = {} /\ wc_open_wakeups = {}

\* A failed creation released in reverse order of acquisition.
ReleasedInReverse ==
    wc_log = (IF wc_fault.call \in AfterOpen
              THEN <<Event("uct_iface_close", wc_fault.tl)>> ELSE <<>>)
             \o ReverseCloses(wc_fault.tl - 1) \o CreateUnwind

\* C32: when a call fails while ucp_worker_create opens an interface,
\* creation returns the error of that call, hands out no worker, leaves
\* nothing open, and has released every resource once, last acquired
\* first, the interface just opened included.
C32_FailureUnwindsAll ==
    CreateFailed =>
        /\ wc_status \in {"NO_MEMORY", "IO_ERROR"}
        /\ ~wc_worker_p
        /\ NothingLeftOpen
        /\ ReleasedInReverse

\* The steps of ucp_worker_destroy in the order the teardown needs.
Rank(op) ==
    CASE op = "ucp_worker_remove_am_handlers" -> 0
      [] op = "ucp_ep_destroy_internal" -> 1
      [] op \in {"uct_wakeup_close", "uct_iface_close"} -> 2
      [] OTHER -> 3

Destroying == wc_pc \in {"destroy_eps", "close_ifaces", "cleanup",
                         "destroyed"}

TeardownRank(op) ==
    CASE op = "barrier" -> 0
      [] op = "uct_iface_set_am_handler" -> 1
      [] op \in {"uct_rkey_release", "uct_ep_destroy"} -> 2
      [] OTHER -> 3

\* C34: a peer leaves the teardown barrier only when every peer is back
\* from the setup; its calls are in the order barrier, clearing of the
\* handler, releases per peer, freeing of the table; and once a peer has
\* left the setup by its error path or has torn down, every endpoint it
\* created was destroyed once and every key it unpacked was released
\* once, the table freed once, and nothing else was released.
C34_TeardownOnce ==
    \A p \in DOMAIN uct_pc :
        LET h == uct_hist[p]
        IN  /\ \A i \in Members : h.released[i] <= 1 /\ h.destroyed[i] <= 1
            /\ \A j \in 1 .. Len(h.log) : \A k \in 1 .. Len(h.log) :
                  j < k => TeardownRank(h.log[j].op) <= TeardownRank(h.log[k].op)
            /\ Cardinality({j \in 1 .. Len(h.log) : h.log[j].op = "free"}) <= 1
            /\ uct_pc[p] = "cleaned" =>
                  /\ \A q \in Members : uct_pc[q] \in {"ready", "cleaned"}
                  /\ Len(h.log) >= 3
                  /\ h.log[1].op = "barrier"
                  /\ h.log[2].op = "uct_iface_set_am_handler"
                  /\ h.log[Len(h.log)].op = "free"
            /\ uct_pc[p] \in {"failed", "cleaned"} =>
                  \A i \in Members :
                      /\ h.released[i] = IF i \in h.unpacked THEN 1 ELSE 0
                      /\ h.destroyed[i] = IF i \in h.created THEN 1 ELSE 0

\* Every peer has torn down, and one of them released a key and destroyed
\* an endpoint for each other peer.
C34_Witness ==
    /\ uct_pc # <<>>
    /\ \A p \in Members : uct_pc[p] = "cleaned"
    /\ \E p \in Members : \A i \in Members \ {p} :
          uct_hist[p].released[i] = 1 /\ uct_hist[p].destroyed[i] = 1
\* C37: a peer whose peer table could not be allocated returns an error
\* from the endpoint setup, never OK.
C37_AllocFailureNotOk ==
    \A p \in DOMAIN uct_hist :
        uct_hist[p].fault = "calloc" => uct_status[p] \notin {"none", "OK"}
\* The iteration bound a measured run is configured with.
ConfiguredBound ==
    IF drv_params.max_iter = 0 THEN UINT64_MAX ELSE drv_params.max_iter

\* C35: a thread that has warmed up and is about to start the measured
\* run has its iteration counter back at zero and its iteration bound and
\* report interval restored from the warmup clamp to the configured
\* values, and a measured run that succeeds has counted the configured
\* number of iterations.
C35_ResetBeforeRun ==
    \A t \in Tids :
        (drv_pc = "parallel" /\ drv_params.warmup_iter > 0) =>
            /\ drv_tctx[t].pc = "ready" =>
                   /\ drv_tctx[t].perf.iters = 0
                   /\ drv_tctx[t].perf.max_iter = ConfiguredBound
                   /\ drv_tctx[t].perf.report_interval
                          = drv_params.report_interval
            /\ (/\ drv_tctx[t].pc = "run_barrier"
                /\ drv_statuses[t] = "OK"
                /\ drv_params.max_iter # 0) =>
                   drv_tctx[t].perf.iters = drv_params.max_iter

\* The items of arr that are below v, and those that are at most v.
Below(arr, v) == Cardinality({i \in DOMAIN arr : arr[i] < v})
AtMost(arr, v) == Cardinality({i \in DOMAIN arr : arr[i] <= v})

\* C36: on every ring of n >= 1 timestamps the selection ends, stays
\* inside the array, leaves a permutation of the ring, and returns the
\* item of rank floor((n - 1) / 2) of the sorted ring; the typical latency
\* is that item over the ticks per second, halved for PINGPONG only.
C36_LowerMedian ==
    qs_result # <<>> =>
        LET n == Cardinality(DOMAIN qs_result.input)
            k == (n - 1) \div 2
            v == qs_result.value
        IN  /\ qs_result.ended
            /\ ~qs_result.oob
            /\ qs_arr = qs_result.arr
            /\ DOMAIN qs_arr = DOMAIN qs_result.input
            /\ \A t \in Ticks :
                  Cardinality({i \in DOMAIN qs_arr : qs_arr[i] = t})
                      = Cardinality({i \in DOMAIN qs_result.input :
                                        qs_result.input[i] = t})
            /\ Below(qs_result.input, v) <= k
            /\ AtMost(qs_result.input, v) > k
            /\ qs_result.typical.num = v
            /\ qs_result.typical.den
                   = IF qs_type = "PINGPONG" THEN 2 * sec_value ELSE sec_value

\* The median of a ring of five slots with duplicates, two of them zero,
\* whose middle slot is not the median, was taken for a PINGPONG result.
C36_Witness ==
    /\ qs_result # <<>>
    /\ qs_type = "PINGPONG"
    /\ Cardinality(DOMAIN qs_result.input) = 5
    /\ Cardinality({i \in DOMAIN qs_result.input :
                       qs_result.input[i] = 0}) = 2
    /\ qs_result.input[2] # qs_result.value
    /\ qs_result.value > 0
    /\ qs_arr # qs_result.input

\* C38: when a step of alloc_mem fails the call returns an error and no
\* buffer it allocated or mapped is still held, neither on its return nor
\* once the setup has unwound.
C38_AllocAllOrNothing ==
    al_fault # "none" =>
        /\ al_status # "OK"
        /\ al_held = {}

\* The result is reported at most once, only after a run that succeeded,
\* and after the barrier that follows the run.
ReportedOnce ==
    \A p \in DOMAIN rn_hist :
        /\ Len(rn_hist[p].reports) <= 1
        /\ rn_hist[p].reports # <<>> =>
              /\ rn_status[p] = "OK"
              /\ rn_pc[p] \in {"out_cleanup", "cleanup_barrier",
                               "cleanup_barrier2", "returned"}
              /\ \A q \in Peers : rn_entered[q] >= rn_hist[p].reports[1]
        /\ (rn_pc[p] = "returned" /\ rn_status[p] = "OK") =>
              Len(rn_hist[p].reports) = 1

\* C39: whatever the statuses of the warmup and of the run on each peer,
\* no peer enters a barrier that a peer which has returned never entered,
\* every peer that returns has issued the same number of barriers, and
\* the result is reported once, after the barrier that follows the run,
\* and only when the run succeeded.
C39_BarrierAligned ==
    /\ \A p \in DOMAIN rn_pc : \A q \in DOMAIN rn_pc :
          rn_pc[q] = "returned" => rn_entered[p] <= rn_entered[q]
    /\ \A p \in DOMAIN rn_pc : \A q \in DOMAIN rn_pc :
          (rn_pc[p] = "returned" /\ rn_pc[q] = "returned") =>
              rn_entered[p] = rn_entered[q]
    /\ ReportedOnce

\* How often uuid is on the stub list.
OnStubList(uuid) ==
    Cardinality({k \in 1 .. Len(gr_stubs) : gr_stubs[k] = uuid})

\* C40: a call of get_reply_ep that finds an endpoint for dest_uuid in the
\* hash returns it and creates no stub; a call that finds none creates
\* one stub endpoint for it, or ends the process; the async block is held
\* inside the call and released when the call has returned or ended the
\* process; no UUID has more than one stub; and the stub-progress callback
\* is registered as often as there are stubs on the list.
C40_ReplyEndpoint ==
    gr_pc # "none" =>
        /\ gr_pc \in {"idle", "fatal"} => gr_async = 0
        /\ gr_pc \in {"find", "unblock", "err"} => gr_async = 1
        /\ gr_progress = Len(gr_stubs)
        /\ \A u \in ReplyUuids :
              /\ OnStubList(u) <= 1
              /\ OnStubList(u) = 1 <=> gr_hash[u] = "stub"
        /\ gr_pc = "unblock" =>
              /\ gr_hist.found # "none" =>
                    gr_hist.created = 0 /\ gr_hash[gr_uuid] = gr_hist.found
              /\ gr_hist.found = "none" =>
                    gr_hist.created = 1 /\ gr_hash[gr_uuid] = "stub"
        /\ gr_hist.left \notin {"none", "fatal"} =>
              /\ gr_pc = "idle"
              /\ gr_hist.created <= 1
              /\ gr_hist.created = 1 <=> gr_hist.found = "none"
        /\ gr_hist.left = "fatal" =>
              gr_pc = "fatal" /\ gr_hist.created = 0

\* A call has returned the stub it created while another stub, made for a
\* wireup request, is on the list and a third endpoint has finished its
\* wireup.
C40_Witness ==
    /\ gr_pc = "idle"
    /\ gr_hist.left = "stub"
    /\ gr_hist.created = 1
    /\ Len(gr_stubs) = 2
    /\ \E u \in ReplyUuids : gr_hash[u] = "ep"
====
